---- MODULE Spec2Model ----
(***************************************************************************)
(* Model of api/build-xlsx.js: the locale-aware numeric resolver           *)
(* (parseNumberAndFormat, toNumberMaybe), the CSV shape detection and row  *)
(* normalisation (parseCsvFlexible) and the request handler that lays the  *)
(* two sheets out.                                                         *)
(*                                                                         *)
(* Text is modelled as a sequence of one-character strings, so that trim,  *)
(* split, replace and the regular expressions of the source are computed.  *)
(* A number is an exact decimal given by its digits, in a normal form, so  *)
(* that record equality is numeric equality.                               *)
(***************************************************************************)
EXTENDS Integers, Sequences, FiniteSets, TLC

VARIABLES
  tok,        \* resolver run: the raw token handed to the resolver
  npieces,    \* resolver run: number of fragments typed into tok
  res,        \* resolver run: results of the two resolvers on tok
  pc,         \* handler: position in the request handler
  req,        \* handler: the request (method and the two sources of the body)
  sapText,    \* handler: text returned by readCsvText for sheet1
  detText,    \* handler: text returned by readCsvText for sheet2
  sapParsed,  \* handler: parseCsvFlexible result for the SAP document
  detParsed,  \* handler: parseCsvFlexible result for the detail document
  wsDET,      \* handler: worksheet "Detaljeret oversigt"
  wsSAP,      \* handler: worksheet "SAP"
  sent,       \* handler: responses written to res, in order
  fetches     \* handler: fetch calls made, in order

resolverVars == <<tok, npieces, res>>

handlerVars ==
  <<pc, req, sapText, detText, sapParsed, detParsed, wsDET, wsSAP, sent, fetches>>

vars == <<resolverVars, handlerVars>>

----------------------------------------------------------------------------
(* Characters and text helpers (JavaScript String methods)                 *)

Digits == {"0", "1", "2", "3", "4", "5", "6", "7", "8", "9"}

\* U+00A0 and U+2009 are written as the atoms "nbsp" and "thin".
WhiteSpace == {" ", "\t", "nbsp", "thin"}

\* JavaScript null / undefined where a text is expected
Null == <<"(null)">>

AllDigits(s) == \A i \in 1..Len(s) : s[i] \in Digits

SetMin(S) == CHOOSE x \in S : \A y \in S : x <= y

SetMax(S) == CHOOSE x \in S : \A y \in S : x >= y

RECURSIVE TrimStart(_)
TrimStart(s) ==
  IF s # <<>> /\ s[1] \in WhiteSpace THEN TrimStart(Tail(s)) ELSE s

RECURSIVE TrimEnd(_)
TrimEnd(s) ==
  IF s # <<>> /\ s[Len(s)] \in WhiteSpace
    THEN TrimEnd(SubSeq(s, 1, Len(s) - 1))
    ELSE s

\* String.prototype.trim
Trim(s) == TrimEnd(TrimStart(s))

\* s.replace(/[C]/g, "")
RemoveAll(s, C) == SelectSeq(s, LAMBDA c : c \notin C)

Includes(s, c) == \E i \in 1..Len(s) : s[i] = c

\* s.lastIndexOf(c), 1-based; 0 when absent
LastIndexOf(s, c) ==
  LET at == {i \in 1..Len(s) : s[i] = c}
  IN  IF at = {} THEN 0 ELSE SetMax(at)

\* s.replace(a, b) with a string pattern: only the first occurrence
ReplaceFirst(s, a, b) ==
  LET at == {i \in 1..Len(s) : s[i] = a}
  IN  IF at = {} THEN s
      ELSE [i \in 1..Len(s) |-> IF i = SetMin(at) THEN b ELSE s[i]]

\* s.split(sep) for a one-character separator
Split(s, sep) ==
  LET at == SelectSeq([i \in 1..Len(s) |-> i], LAMBDA i : s[i] = sep)
  IN  [k \in 1..(Len(at) + 1) |->
         SubSeq(s, IF k = 1 THEN 1 ELSE at[k - 1] + 1,
                   IF k > Len(at) THEN Len(s) ELSE at[k] - 1)]

RECURSIVE StripLeadingZeros(_)
StripLeadingZeros(s) ==
  IF s # <<>> /\ s[1] = "0" THEN StripLeadingZeros(Tail(s)) ELSE s

RECURSIVE StripTrailingZeros(_)
StripTrailingZeros(s) ==
  IF s # <<>> /\ s[Len(s)] = "0"
    THEN StripTrailingZeros(SubSeq(s, 1, Len(s) - 1))
    ELSE s

(* A finite non-negative number: the digits of its integer part without    *)
(* leading zeros (none for 0) and of its fraction without trailing zeros,  *)
(* so that two numbers are equal exactly when their records are.           *)
Num(intDigits, fracDigits) ==
  [i |-> StripLeadingZeros(intDigits), f |-> StripTrailingZeros(fracDigits)]

NaN == [i |-> <<"NaN">>, f |-> <<>>]

IsFinite(n) == n # NaN

(* Number(text) on the alphabet of the model (digits, '.', ',', ';', white *)
(* space, letters other than e/x/o/b, no sign): white space is trimmed,    *)
(* the empty text is 0, "ddd", "ddd.", "ddd.ddd" and ".ddd" are decimals,  *)
(* anything else is NaN.                                                   *)
JsNumber(text) ==
  LET t == Trim(text)
      p == Split(t, ".")
  IN  IF t = <<>> THEN Num(<<>>, <<>>)
      ELSE IF Len(p) = 1
        THEN IF AllDigits(t) THEN Num(t, <<>>) ELSE NaN
      ELSE IF Len(p) = 2 /\ AllDigits(p[1]) /\ AllDigits(p[2])
                /\ Len(p[1]) + Len(p[2]) > 0
        THEN Num(p[1], p[2])
      ELSE NaN

----------------------------------------------------------------------------
(* toNumberMaybe (first variant of the file)                               *)

\* ^\d{1,3}(G\d{3}){minGroups,}(D\d+)?$
GroupedRegex(s, G, D, minGroups) ==
  LET p == Split(s, D)
      g == Split(p[1], G)
  IN  /\ Len(p) <= 2
      /\ Len(p) = 2 => (Len(p[2]) >= 1 /\ AllDigits(p[2]))
      /\ Len(g) >= 1 + minGroups
      /\ Len(g[1]) \in 1..3 /\ AllDigits(g[1])
      /\ \A i \in 2..Len(g) : Len(g[i]) = 3 /\ AllDigits(g[i])

\* ^\d+,\d+$
PlainCommaRegex(s) ==
  LET p == Split(s, ",")
  IN  Len(p) = 2 /\ Len(p[1]) >= 1 /\ Len(p[2]) >= 1
        /\ AllDigits(p[1]) /\ AllDigits(p[2])

NoNumber == [ok |-> FALSE, num |-> NaN]

toNumberMaybe(v) ==
  LET s0 == RemoveAll(Trim(v), WhiteSpace)
      s1 == IF GroupedRegex(s0, ".", ",", 0)
              THEN ReplaceFirst(RemoveAll(s0, {"."}), ",", ".")
            ELSE IF PlainCommaRegex(s0) THEN ReplaceFirst(s0, ",", ".")
            ELSE s0
      s2 == IF GroupedRegex(s1, ",", ".", 1) THEN RemoveAll(s1, {","}) ELSE s1
      n  == JsNumber(s2)
  IN  IF v = Null \/ Trim(v) = <<>> THEN NoNumber
      ELSE IF IsFinite(n) THEN [ok |-> TRUE, num |-> n] ELSE NoNumber

----------------------------------------------------------------------------
(* parseNumberAndFormat (second variant of the file)                       *)

\* a number format: "#,##0.00" is [grouped |-> TRUE, dec |-> 2], "0" is
\* [grouped |-> FALSE, dec |-> 0]
decFmt(d) == [grouped |-> FALSE, dec |-> d]

decFmtGrouped(d) == [grouped |-> TRUE, dec |-> d]

NotParsed ==
  [ok |-> FALSE, num |-> NaN, fmt |-> decFmt(0), decimals |-> 0,
   groupingUsed |-> FALSE]

Parsed(num, fmt, decimals, groupingUsed) ==
  IF IsFinite(num)
    THEN [ok |-> TRUE, num |-> num, fmt |-> fmt, decimals |-> decimals,
          groupingUsed |-> groupingUsed]
    ELSE NotParsed

\* mutant: the digits after the decimal separator are not counted
TailDecimals_Zero(tail) == 0

\* /^\d+$/.test(tail) ? tail.length : 0
TailDecimals(tail) == IF Len(tail) >= 1 /\ AllDigits(tail) THEN Len(tail) ELSE 0

\* mutant: the earlier separator is taken as the decimal separator
BothSeparators_Swapped(s) ==
  LET lastDot   == LastIndexOf(s, ".")
      lastComma == LastIndexOf(s, ",")
  IN  IF lastComma < lastDot
        THEN LET d == TailDecimals(SubSeq(s, lastComma + 1, Len(s)))
             IN  Parsed(JsNumber(ReplaceFirst(RemoveAll(s, {"."}), ",", ".")),
                        decFmtGrouped(d), d, TRUE)
        ELSE LET d == TailDecimals(SubSeq(s, lastDot + 1, Len(s)))
             IN  Parsed(JsNumber(RemoveAll(s, {","})), decFmtGrouped(d), d, TRUE)

\* both '.' and ',' present: the later one is the decimal separator
BothSeparators(s) ==
  LET lastDot   == LastIndexOf(s, ".")
      lastComma == LastIndexOf(s, ",")
  IN  IF lastComma > lastDot
        THEN LET d == TailDecimals(SubSeq(s, lastComma + 1, Len(s)))
             IN  Parsed(JsNumber(ReplaceFirst(RemoveAll(s, {"."}), ",", ".")),
                        decFmtGrouped(d), d, TRUE)
        ELSE LET d == TailDecimals(SubSeq(s, lastDot + 1, Len(s)))
             IN  Parsed(JsNumber(RemoveAll(s, {","})), decFmtGrouped(d), d, TRUE)

\* mutant: a tail of three digits is no longer a decimal tail
ShortTail_UpToTwo(tail) == Len(tail) \in 1..2 /\ AllDigits(tail)

\* /^\d{1,3}$/.test(tail)
ShortTail(tail) == Len(tail) \in 1..3 /\ AllDigits(tail)

\* only ',' present
OnlyComma(s, groupingUsed) ==
  LET parts == Split(s, ",")
      tail  == parts[2]
  IN  IF Len(parts) = 2 /\ ShortTail(tail)
        THEN Parsed(JsNumber(parts[1] \o <<".">> \o tail),
                    IF groupingUsed THEN decFmtGrouped(Len(tail))
                                    ELSE decFmt(Len(tail)),
                    Len(tail), groupingUsed)
        ELSE Parsed(JsNumber(RemoveAll(s, {","})), decFmtGrouped(0), 0, TRUE)

\* only '.' present
OnlyDot(s, groupingUsed) ==
  LET parts == Split(s, ".")
      tail  == parts[2]
  IN  IF Len(parts) = 2 /\ ShortTail(tail)
        THEN Parsed(JsNumber(s),
                    IF groupingUsed THEN decFmtGrouped(Len(tail))
                                    ELSE decFmt(Len(tail)),
                    Len(tail), groupingUsed)
        ELSE Parsed(JsNumber(RemoveAll(s, {"."})), decFmtGrouped(0), 0, TRUE)

parseNumberAndFormat(rawText) ==
  LET s0 == RemoveAll(Trim(rawText), {"nbsp", "thin"})
      hadSemicolonGrouping == Includes(s0, ";")
      s  == RemoveAll(s0, {";"})
      hasDot   == Includes(s, ".")
      hasComma == Includes(s, ",")
  IN  IF rawText = Null \/ Trim(rawText) = <<>> THEN NotParsed
      ELSE IF hasDot /\ hasComma THEN BothSeparators(s)
      ELSE IF hasComma THEN OnlyComma(s, hadSemicolonGrouping)
      ELSE IF hasDot THEN OnlyDot(s, hadSemicolonGrouping)
      ELSE Parsed(JsNumber(s),
                  IF hadSemicolonGrouping THEN decFmtGrouped(0) ELSE decFmt(0),
                  0, hadSemicolonGrouping)

----------------------------------------------------------------------------
(* Configuration                                                           *)

TITLE_ROW_INDEX == 1

SUBTITLE_ROW_INDEX == 2

HEADER_ROW_INDEX == 4

SAP_HEADERS ==
  << <<"K", "o", "n", "t", "r", "a", "k", "t">>,
    <<"P", "o", "s", "i", "t", "i", "o", "n">>,
    <<"A", "r", "t", "s", "k", "o", "n", "t", "o">>,
    <<"B", "e", "s", "r", "k", "i", "v", "e", "l", "s", "e">>,
    <<"P", "r", "o", "f", "i", "t", "c", "e", "n", "t", "e", "r">>,
    <<"P", "r", "i", "s", " ", "i", "n", "k", "l", ".", " ", "m", "o", "m",
      "s">>,
    <<"M", "o", "m", "s", "k", "o", "d", "e">>,
    <<"P", "r", "i", "s", " ", "e", "x", ".", " ", "m", "o", "m", "s">>,
    <<"L", "o", "k", "a", "t", "i", "o", "n", "/", "r", "u", "t", "e">>,
    <<"K", "u", "n", "d", "e">> >>

DET_BASE_HEADERS ==
  << <<"Oslash", "k", "o", "-", "I", "D">>,
    <<"V", "i", "n", "t", "e", "r", "c", "e", "n", "t", "r", "a", "l">>,
    <<"O", "m", "r", "aring", "d", "e">>,
    <<"D", "i", "s", "t", "r", "i", "k", "t">>,
    <<"R", "u", "t", "e", "/", "l", "o", "k", "a", "t", "i", "o", "n">>,
    <<"L", "o", "k", "a", "t", "i", "o", "n", "s", "n", "a", "v", "n">>,
    <<"E", "v", "t", ".", " ", "i", "d">>,
    <<"L", "o", "k", "a", "t", "i", "o", "n", "s", "a", "d", "r", "e", "s",
      "s", "e">>,
    <<"L", "o", "k", "a", "t", "i", "o", "n", "s", "p", "o", "s", "t", "n",
      "r">>,
    <<"I", " ", "a", "l", "t", ",", " ", "k", "r">>,
    <<"S", "a", "l", "t", "n", "i", "n", "g", ",", " ", "k", "r">>,
    <<"S", "a", "l", "t", ",", " ", "a", "n", "t", "a", "l">>,
    <<"S", "a", "l", "t", ",", " ", "g", "n", "s", ".", " ", "p", "r", "i",
      "s">>,
    <<"K", "o", "m", "b", "i", ",", " ", "k", "r">>,
    <<"K", "o", "m", "b", "i", ",", " ", "a", "n", "t", "a", "l">>,
    <<"K", "o", "m", "b", "i", ",", " ", "g", "n", "s", ".", " ", "p", "r",
      "i", "s">>,
    <<"S", "n", "e", "r", "y", "d", "n", "i", "n", "g", ",", " ", "k", "r">>,
    <<"S", "n", "e", ",", " ", "a", "n", "t", "a", "l">>,
    <<"S", "n", "e", ",", " ", "g", "n", "s", ".", " ", "p", "r", "i", "s">>,
    <<"A", "n", "d", "e", "t", ",", " ", "k", "r">>,
    <<"A", "n", "d", "e", "t", ",", " ", "a", "n", "t", "a", "l">>,
    <<"A", "n", "d", "e", "t", ",", " ", "g", "n", "s", ".", " ", "p", "r",
      "i", "s">>,
    <<"S", "a", "l", "t", ",", " ", "k", "g">> >>

MONEY_HEADERS ==
  { <<"I", " ", "a", "l", "t", ",", " ", "k", "r">>,
    <<"S", "a", "l", "t", "n", "i", "n", "g", ",", " ", "k", "r">>,
    <<"K", "o", "m", "b", "i", ",", " ", "k", "r">>,
    <<"S", "n", "e", "r", "y", "d", "n", "i", "n", "g", ",", " ", "k", "r">>,
    <<"A", "n", "d", "e", "t", ",", " ", "k", "r">>,
    <<"P", "r", "i", "s", " ", "i", "n", "k", "l", ".", " ", "m", "o", "m",
      "s">>,
    <<"P", "r", "i", "s", " ", "e", "x", ".", " ", "m", "o", "m", "s">> }

AVG_PRICE_HEADERS ==
  { <<"S", "a", "l", "t", ",", " ", "g", "n", "s", ".", " ", "p", "r", "i",
      "s">>,
    <<"K", "o", "m", "b", "i", ",", " ", "g", "n", "s", ".", " ", "p", "r",
      "i", "s">>,
    <<"S", "n", "e", ",", " ", "g", "n", "s", ".", " ", "p", "r", "i", "s">>,
    <<"A", "n", "d", "e", "t", ",", " ", "g", "n", "s", ".", " ", "p", "r",
      "i", "s">> }

COUNT_HEADERS ==
  { <<"S", "a", "l", "t", ",", " ", "a", "n", "t", "a", "l">>,
    <<"K", "o", "m", "b", "i", ",", " ", "a", "n", "t", "a", "l">>,
    <<"S", "n", "e", ",", " ", "a", "n", "t", "a", "l">>,
    <<"A", "n", "d", "e", "t", ",", " ", "a", "n", "t", "a", "l">>,
    <<"S", "a", "l", "t", ",", " ", "k", "g">> }

----------------------------------------------------------------------------
(* Utilities: norm, stripComma, getValueForHeader                          *)

\* the lower-case form of each upper-case letter of the alphabet
LowerCase ==
  [A |-> "a", B |-> "b", C |-> "c", D |-> "d", E |-> "e", F |-> "f",
   G |-> "g", H |-> "h", I |-> "i", J |-> "j", K |-> "k", L |-> "l",
   M |-> "m", N |-> "n", O |-> "o", P |-> "p", Q |-> "q", R |-> "r",
   S |-> "s", T |-> "t", U |-> "u", V |-> "v", W |-> "w", X |-> "x",
   Y |-> "y", Z |-> "z", Oslash |-> "oslash"]

UpperCase == DOMAIN LowerCase

Lower(c) == IF c \in UpperCase THEN LowerCase[c] ELSE c

\* String.prototype.toLowerCase
ToLowerCase(s) == [i \in 1..Len(s) |-> Lower(s[i])]

norm(s) == ToLowerCase(Trim(s))

stripComma(s) == RemoveAll(norm(s), {","})

StartsWith(s, prefix) ==
  Len(s) >= Len(prefix) /\ SubSeq(s, 1, Len(prefix)) = prefix

DigitChar == <<"0", "1", "2", "3", "4", "5", "6", "7", "8", "9">>

\* String(n) for a natural number
RECURSIVE IntToText(_)
IntToText(n) ==
  IF n < 10 THEN <<DigitChar[n + 1]>>
  ELSE IntToText(n \div 10) \o <<DigitChar[(n % 10) + 1]>>

\* the value of a short run of digits
RECURSIVE TextToInt(_)
TextToInt(s) ==
  IF s = <<>> THEN 0
  ELSE 10 * TextToInt(SubSeq(s, 1, Len(s) - 1))
         + (CHOOSE d \in 0..9 : DigitChar[d + 1] = s[Len(s)])

\* /^\d{1,2}$/.test(h)
IsDayLabel(h) == Len(h) \in 1..2 /\ AllDigits(h)

(* A record of parseCsvFlexible: its keys in Object.keys order (integer     *)
(* like keys ascending, then the other keys in insertion order) and the    *)
(* value last assigned to each.                                            *)
IsIndexKey(k) ==
  /\ Len(k) \in 1..9 /\ AllDigits(k)
  /\ (Len(k) = 1 \/ k[1] # "0")

HasKey(obj, key) == \E i \in 1..Len(obj.keys) : obj.keys[i] = key

\* obj[key], for a key the record has
Get(obj, key) ==
  obj.vals[CHOOSE i \in 1..Len(obj.keys) : obj.keys[i] = key]

\* (obj[k] ?? "").toString().trim() !== ""
NonEmptyAt(obj, key) == HasKey(obj, key) /\ Trim(Get(obj, key)) # <<>>

getValueForHeader(obj, hdr) ==
  LET target == stripComma(hdr)
      wanted == norm(hdr)
      hits == {i \in 1..Len(obj.keys) :
                 norm(obj.keys[i]) = wanted \/ stripComma(obj.keys[i]) = target}
  IN  IF HasKey(obj, hdr) THEN Get(obj, hdr)
      ELSE IF hits = {} THEN Null
      ELSE obj.vals[SetMin(hits)]

----------------------------------------------------------------------------
(* Robust CSV parsing: findHeaderIndex, parseWithDelimiter, isNoiseRow,    *)
(* parseCsvFlexible.  A raw text is a sequence of lines, a line a sequence *)
(* of characters; the alphabet has no quote character, so Papa.parse with  *)
(* a given delimiter splits every line at that delimiter and keeps empty   *)
(* lines as a row with one empty cell.                                     *)

\* rows scanned for the header row
ScanWindow == 12

Min2(a, b) == IF a <= b THEN a ELSE b

\* the two comparison keys of an expected label
MatchKeys(labels) ==
  [k \in 1..Len(labels) |-> [n |-> norm(labels[k]), s |-> stripComma(labels[k])]]

\* number of expected labels equal to some cell of the row
RowScore(row, expectKeys) ==
  LET ns == {norm(row[c]) : c \in 1..Len(row)}
      ss == {stripComma(row[c]) : c \in 1..Len(row)}
  IN  Cardinality({k \in 1..Len(expectKeys) :
                     expectKeys[k].n \in ns \/ expectKeys[k].s \in ss})

\* mutant: a later row with the same score replaces the best row
RECURSIVE HeaderScan_LastWins(_, _, _, _)
HeaderScan_LastWins(rows, expectKeys, i, best) ==
  IF i >= Min2(Len(rows), ScanWindow) THEN best
  ELSE LET score == RowScore(rows[i + 1], expectKeys)
       IN  HeaderScan_LastWins(rows, expectKeys, i + 1,
                               IF score >= best.score
                                 THEN [idx |-> i, score |-> score]
                                 ELSE best)

\* the loop of findHeaderIndex from 0-based row i on
RECURSIVE HeaderScan(_, _, _, _)
HeaderScan(rows, expectKeys, i, best) ==
  IF i >= Min2(Len(rows), ScanWindow) THEN best
  ELSE LET score == RowScore(rows[i + 1], expectKeys)
       IN  HeaderScan(rows, expectKeys, i + 1,
                      IF score > best.score
                        THEN [idx |-> i, score |-> score]
                        ELSE best)

findHeaderIndex(rows, expectKeys) ==
  HeaderScan(rows, expectKeys, 0, [idx |-> -1, score |-> -1])

\* Papa.parse(raw, { header: false, delimiter, skipEmptyLines: false }).data
PapaParse(raw, delimiter) == [i \in 1..Len(raw) |-> Split(raw[i], delimiter)]

parseWithDelimiter(raw, delimiter, expectKeys) ==
  LET rows == PapaParse(raw, delimiter)
      found == findHeaderIndex(SubSeq(rows, 1, Min2(Len(rows), ScanWindow)),
                               expectKeys)
  IN  [rows |-> rows, headerIdx |-> found.idx, score |-> found.score,
       delimiter |-> delimiter]

Candidates == <<";", ",", "\t">>

\* the loop over the candidate delimiters from position k on
RECURSIVE BestAttempt(_, _, _, _)
BestAttempt(raw, expectKeys, k, best) ==
  IF k > Len(Candidates) THEN best
  ELSE LET attempt == parseWithDelimiter(raw, Candidates[k], expectKeys)
       IN  BestAttempt(raw, expectKeys, k + 1,
                       IF attempt.score > best.score THEN attempt ELSE best)

isNoiseRow(arr) ==
  LET first == IF Len(arr) >= 1 THEN ToLowerCase(Trim(arr[1])) ELSE <<>>
      allEmpty == \A c \in 1..Len(arr) : Trim(arr[c]) = <<>>
  IN  allEmpty \/ StartsWith(first, <<"u", "d", "t", "r", "u", "k", "k", "e", "t">>)

\* text.replace(/^\uFEFF/, "")
StripBom(raw) ==
  IF raw # <<>> /\ raw[1] # <<>> /\ raw[1][1] = "bom"
    THEN <<Tail(raw[1])>> \o Tail(raw)
    ELSE raw

\* mutant: the double quotes stay on the cell
StripQuotes_Kept(s) == s

\* t.replace(/^"+|"+$/g, "")
StripQuotes(s) ==
  LET keep == {i \in 1..Len(s) : s[i] # "\""}
  IN  IF keep = {} THEN <<>> ELSE SubSeq(s, SetMin(keep), SetMax(keep))

\* pieces.join("  ")
RECURSIVE Join(_)
Join(pieces) ==
  IF pieces = <<>> THEN <<>>
  ELSE IF Len(pieces) = 1 THEN pieces[1]
  ELSE pieces[1] \o <<" ", " ">> \o Join(Tail(pieces))

\* the subtitle loop from 0-based row i on
RECURSIVE SubtitleScan(_, _, _)
SubtitleScan(rows, headerIdx, i) ==
  IF i >= headerIdx THEN <<>>
  ELSE LET line == IF i < Len(rows) THEN rows[i + 1] ELSE <<>>
           trimmed == [c \in 1..Len(line) |-> Trim(line[c])]
           pieces == SelectSeq(trimmed, LAMBDA x : x # <<>>)
       IN  IF pieces # <<>> THEN Join(pieces)
           ELSE SubtitleScan(rows, headerIdx, i + 1)

\* headers[c] || `col_${c + 1}`, for the 1-based column c
KeyAt(headers, c) ==
  IF headers[c] # <<>> THEN headers[c]
  ELSE <<"c", "o", "l", "_">> \o IntToText(c)

\* the record of one row: obj[key] = arr[c] ?? "" for every header column
MakeRecord(headers, arr) ==
  LET n == Len(headers)
      first == {c \in 1..n : \A b \in 1..(c - 1) : KeyAt(headers, b) # KeyAt(headers, c)}
      last(c) == SetMax({b \in 1..n : KeyAt(headers, b) = KeyAt(headers, c)})
      idxCols == {c \in first : IsIndexKey(KeyAt(headers, c))}
      ordered == SortSeq(
                   [j \in 1..Cardinality(idxCols) |->
                      CHOOSE c \in idxCols :
                        Cardinality({b \in idxCols : b < c}) = j - 1],
                   LAMBDA x, y : TextToInt(KeyAt(headers, x)) < TextToInt(KeyAt(headers, y)))
      others == SelectSeq([c \in 1..n |-> c],
                          LAMBDA c : c \in first /\ c \notin idxCols)
      cols == ordered \o others
  IN  [keys |-> [j \in 1..Len(cols) |-> KeyAt(headers, cols[j])],
       vals |-> [j \in 1..Len(cols) |->
                   IF last(cols[j]) <= Len(arr) THEN arr[last(cols[j])] ELSE <<>>]]

\* the row filter added to the data loop
KeepRow(obj, arr, opts) ==
  LET nonEmptyCount == Cardinality({c \in 1..Len(arr) : Trim(arr[c]) # <<>>})
      firstNonEmpty == Len(arr) >= 1 /\ Trim(arr[1]) # <<>>
      hasIdentity == \E k \in 1..Len(opts.identityKeys) : NonEmptyAt(obj, opts.identityKeys[k])
      hasValues == \E k \in 1..Len(opts.valueKeys) : NonEmptyAt(obj, opts.valueKeys[k])
      hasDays == \E k \in 1..Len(opts.dayKeys) : NonEmptyAt(obj, opts.dayKeys[k])
  IN  hasIdentity \/ hasValues \/ hasDays \/ (firstNonEmpty /\ nonEmptyCount = 1)

\* the data loop from 0-based row i on
RECURSIVE DataScan(_, _, _, _)
DataScan(rows, headers, opts, i) ==
  IF i >= Len(rows) THEN <<>>
  ELSE LET arr == rows[i + 1]
           obj == MakeRecord(headers, arr)
           rest == DataScan(rows, headers, opts, i + 1)
       IN  IF isNoiseRow(arr) THEN rest
           ELSE IF KeepRow(obj, arr, opts) THEN <<obj>> \o rest
           ELSE rest

parseCsvFlexible(text, expectKeys, opts) ==
  LET clean == StripBom(text)
      best == BestAttempt(clean, expectKeys, 1,
                          [rows |-> <<>>, headerIdx |-> -1, score |-> -1,
                           delimiter |-> ";"])
      rows == best.rows
      t0 == IF rows # <<>> /\ rows[1] # <<>> THEN StripQuotes(rows[1][1]) ELSE <<>>
      title == IF StartsWith(norm(t0), <<"p", "e", "r", "i", "o", "d", "e">>)
                 THEN t0 ELSE <<>>
      headerIdx == IF best.headerIdx >= 0 THEN best.headerIdx ELSE 0
      headerRow == IF headerIdx < Len(rows) THEN rows[headerIdx + 1] ELSE <<>>
      headers == [c \in 1..Len(headerRow) |-> Trim(headerRow[c])]
  IN  [title |-> title,
       subtitle |-> SubtitleScan(rows, headerIdx, 1),
       headers |-> headers,
       rows |-> DataScan(rows, headers, opts, headerIdx + 1),
       headerIdx |-> headerIdx,
       delimiter |-> best.delimiter]

\* Array.from({ length: 31 }, (_, i) => String(i + 1))
detDaysAll == [i \in 1..31 |-> IntToText(i)]

SapExpectKeys == MatchKeys(SAP_HEADERS)

DetExpectKeys == MatchKeys(DET_BASE_HEADERS \o detDaysAll)

SapOpts ==
  [identityKeys |->
     << <<"K", "o", "n", "t", "r", "a", "k", "t">>,
        <<"L", "o", "k", "a", "t", "i", "o", "n", "/", "r", "u", "t", "e">>,
        <<"K", "u", "n", "d", "e">> >>,
   valueKeys |->
     << <<"P", "r", "i", "s", " ", "i", "n", "k", "l", ".", " ", "m", "o", "m", "s">>,
        <<"P", "r", "i", "s", " ", "e", "x", ".", " ", "m", "o", "m", "s">> >>,
   dayKeys |-> <<>>]

DetOpts ==
  [identityKeys |->
     << <<"Oslash", "k", "o", "-", "I", "D">>,
        <<"R", "u", "t", "e", "/", "l", "o", "k", "a", "t", "i", "o", "n">>,
        <<"L", "o", "k", "a", "t", "i", "o", "n", "s", "n", "a", "v", "n">> >>,
   valueKeys |->
     << <<"I", " ", "a", "l", "t", ",", " ", "k", "r">>,
        <<"S", "a", "l", "t", "n", "i", "n", "g", ",", " ", "k", "r">>,
        <<"S", "a", "l", "t", ",", " ", "a", "n", "t", "a", "l">>,
        <<"S", "a", "l", "t", ",", " ", "g", "n", "s", ".", " ", "p", "r", "i", "s">>,
        <<"K", "o", "m", "b", "i", ",", " ", "k", "r">>,
        <<"K", "o", "m", "b", "i", ",", " ", "a", "n", "t", "a", "l">>,
        <<"K", "o", "m", "b", "i", ",", " ", "g", "n", "s", ".", " ", "p", "r", "i", "s">>,
        <<"S", "n", "e", "r", "y", "d", "n", "i", "n", "g", ",", " ", "k", "r">>,
        <<"S", "n", "e", ",", " ", "a", "n", "t", "a", "l">>,
        <<"S", "n", "e", ",", " ", "g", "n", "s", ".", " ", "p", "r", "i", "s">>,
        <<"A", "n", "d", "e", "t", ",", " ", "k", "r">>,
        <<"A", "n", "d", "e", "t", ",", " ", "a", "n", "t", "a", "l">>,
        <<"S", "a", "l", "t", ",", " ", "k", "g">> >>,
   dayKeys |-> detDaysAll]

----------------------------------------------------------------------------
(* The worksheet: cells by <<row, column>>, merged ranges, and the list of *)
(* layout elements written with their rows.  Fonts, alignment, widths and  *)
(* row heights are left out.                                               *)

NoFmt == [kind |-> "unset", grouped |-> FALSE, dec |-> 0]

GeneralFmt == [kind |-> "General", grouped |-> FALSE, dec |-> 0]

\* the number format strings "0", "0.00", "#,##0", "#,##0.00", ...
NumberFmt(fmt) == [kind |-> "number", grouped |-> fmt.grouped, dec |-> fmt.dec]

NullValue ==
  [t |-> "null", num |-> NaN, txt |-> <<>>, col |-> <<>>, from |-> 0, to |-> 0]

NumValue(n) == [NullValue EXCEPT !.t = "number", !.num = n]

TextValue(s) == [NullValue EXCEPT !.t = "text", !.txt = s]

\* { formula: `SUM(${colLetter}${startRow}:${colLetter}${endRow})` }
SumFormula(colLetter, startRow, endRow) ==
  [NullValue EXCEPT !.t = "formula", !.col = colLetter, !.from = startRow,
                    !.to = endRow]

\* (raw === "" || raw === null) ? null : raw
TextOrNull(raw) == IF raw = <<>> \/ raw = Null THEN NullValue ELSE TextValue(raw)

(* coerceByHeader (first variant of the file): day columns stay text, the  *)
(* known numeric fields go through toNumberMaybe, String(null) is "null".  *)
coerceByHeader(header, value) ==
  LET h == Trim(header)
      SAP_NUMERIC_HEADERS ==
        { <<"P", "r", "i", "s", " ", "i", "n", "k", "l", ".", " ", "m", "o", "m", "s">>,
          <<"P", "r", "i", "s", " ", "e", "x", ".", " ", "m", "o", "m", "s">> }
      \* the 14 detail labels: the money, average price and count labels
      DET_NUMERIC_HEADERS ==
        (MONEY_HEADERS \cup AVG_PRICE_HEADERS \cup COUNT_HEADERS) \ SAP_NUMERIC_HEADERS
      n == toNumberMaybe(value)
  IN  IF IsDayLabel(h)
        THEN IF value = <<>> THEN NullValue
             ELSE TextValue(IF value = Null THEN <<"n", "u", "l", "l">> ELSE value)
      ELSE IF h \in DET_NUMERIC_HEADERS \cup SAP_NUMERIC_HEADERS
        THEN IF n.ok THEN NumValue(n.num) ELSE NullValue
      ELSE IF value = <<>> \/ value = Null THEN NullValue ELSE TextValue(value)

\* resolved: parseNumberAndFormat was called for the cell
Cell(v, numFmt, resolved) ==
  [v |-> v, numFmt |-> numFmt, border |-> FALSE, resolved |-> resolved]

BlankCell == Cell(NullValue, NoFmt, FALSE)

EmptySheet == [cells |-> <<>>, merges |-> {}, layout |-> <<>>]

NoSheet == [cells |-> <<>>, merges |-> {}, layout |-> <<"none">>]

\* ws.getCell(r, c): the cell, created blank when absent
GetCell(cells, r, c) ==
  IF <<r, c>> \in DOMAIN cells THEN cells[<<r, c>>] ELSE BlankCell

Elem(name, row) == [elem |-> name, row |-> row]

setTitle(ws, text, totalCols) ==
  IF text = <<>> THEN ws
  ELSE [cells |-> (<<TITLE_ROW_INDEX, 1>> :> Cell(TextValue(text), NoFmt, FALSE))
                    @@ ws.cells,
        merges |-> ws.merges \cup
                     {[row |-> TITLE_ROW_INDEX, first |-> 1, last |-> totalCols]},
        layout |-> Append(ws.layout, Elem("title", TITLE_ROW_INDEX))]

setSubtitle(ws, text, totalCols) ==
  IF text = <<>> THEN ws
  ELSE [cells |-> (<<SUBTITLE_ROW_INDEX, 1>> :> Cell(TextValue(text), NoFmt, FALSE))
                    @@ ws.cells,
        merges |-> ws.merges \cup
                     {[row |-> SUBTITLE_ROW_INDEX, first |-> 1, last |-> totalCols]},
        layout |-> Append(ws.layout, Elem("subtitle", SUBTITLE_ROW_INDEX))]

writeHeader(ws, labels) ==
  [ws EXCEPT
     !.cells = [p \in {HEADER_ROW_INDEX} \X (1..Len(labels)) |->
                  [Cell(TextValue(labels[p[2]]), NoFmt, FALSE) EXCEPT !.border = TRUE]]
               @@ @,
     !.layout = Append(@, Elem("header", HEADER_ROW_INDEX))]

addBorders(ws, startRow, endRow, startCol, endCol) ==
  [ws EXCEPT
     !.cells = [p \in (startRow..endRow) \X (startCol..endCol) |->
                  [GetCell(ws.cells, p[1], p[2]) EXCEPT !.border = TRUE]]
               @@ @]

\* mutant: the footer directly below afterRow
writeFooter_NoGap(ws, startCol, endCol, afterRow, extractedAt) ==
  LET row == (IF afterRow # 0 THEN afterRow ELSE HEADER_ROW_INDEX) + 1
  IN  [cells |-> (<<row, startCol>> :>
                    [GetCell(ws.cells, row, startCol) EXCEPT
                       !.v = TextValue(<<"U", "d", "t", "r", "u", "k", "k", "e", "t", " ">>
                                         \o extractedAt)])
                    @@ ws.cells,
        merges |-> ws.merges \cup {[row |-> row, first |-> startCol, last |-> endCol]},
        layout |-> Append(ws.layout, Elem("footer", row))]

writeFooter(ws, startCol, endCol, afterRow, extractedAt) ==
  LET row == (IF afterRow # 0 THEN afterRow ELSE HEADER_ROW_INDEX) + 2
  IN  [cells |-> (<<row, startCol>> :>
                    [GetCell(ws.cells, row, startCol) EXCEPT
                       !.v = TextValue(<<"U", "d", "t", "r", "u", "k", "k", "e", "t", " ">>
                                         \o extractedAt)])
                    @@ ws.cells,
        merges |-> ws.merges \cup {[row |-> row, first |-> startCol, last |-> endCol]},
        layout |-> Append(ws.layout, Elem("footer", row))]

Letters ==
  <<"A", "B", "C", "D", "E", "F", "G", "H", "I", "J", "K", "L", "M", "N",
    "O", "P", "Q", "R", "S", "T", "U", "V", "W", "X", "Y", "Z">>

RECURSIVE numberToColumn(_)
numberToColumn(n) ==
  IF n > 0
    THEN numberToColumn((n - 1) \div 26) \o <<Letters[((n - 1) % 26) + 1]>>
    ELSE <<>>

\* mutant: the SUM range stops one row early
writeSumFormulas_ShortRange(ws, totalRow, colIndexes, startRow, endRow) ==
  LET maxCol == SetMax({colIndexes[k] : k \in 1..Len(colIndexes)})
      isSum(c) == \E k \in 1..Len(colIndexes) : colIndexes[k] = c
  IN  [ws EXCEPT
         !.cells = [p \in {totalRow} \X (1..maxCol) |->
                      [GetCell(ws.cells, totalRow, p[2]) EXCEPT
                         !.v = IF isSum(p[2])
                                 THEN SumFormula(numberToColumn(p[2]), startRow,
                                                 endRow - 1)
                                 ELSE @,
                         !.border = TRUE]]
                   @@ @,
         !.layout = Append(@, Elem("totals", totalRow))]

writeSumFormulas(ws, totalRow, colIndexes, startRow, endRow) ==
  LET maxCol == SetMax({colIndexes[k] : k \in 1..Len(colIndexes)})
      isSum(c) == \E k \in 1..Len(colIndexes) : colIndexes[k] = c
  IN  [ws EXCEPT
         !.cells = [p \in {totalRow} \X (1..maxCol) |->
                      [GetCell(ws.cells, totalRow, p[2]) EXCEPT
                         !.v = IF isSum(p[2])
                                 THEN SumFormula(numberToColumn(p[2]), startRow, endRow)
                                 ELSE @,
                         !.border = TRUE]]
                   @@ @,
         !.layout = Append(@, Elem("totals", totalRow))]

\* labels.indexOf(name) + 1
ColIndex(labels, name) ==
  LET at == {i \in 1..Len(labels) : labels[i] = name}
  IN  IF at = {} THEN 0 ELSE SetMin(at)

----------------------------------------------------------------------------
(* Column statistics: detDecimalsByHeader / detGroupingByHeader and their  *)
(* SAP counterparts, accumulated row by row.  decimals = -1 stands for an  *)
(* entry that was never assigned (undefined).                              *)

NoStats == [decimals |-> -1, grouping |-> FALSE]

Max2(a, b) == IF a >= b THEN a ELSE b

\* Math.max(byHeader[hdr] || 0, parsed.decimals); if (groupingUsed) ... = true
Accumulate(acc, parsed) ==
  IF parsed.ok
    THEN [decimals |-> Max2(Max2(acc.decimals, 0), parsed.decimals),
          grouping |-> acc.grouping \/ parsed.groupingUsed]
    ELSE acc

\* the statistics of column hdr after the records 1..i
RECURSIVE ColumnStats(_, _, _)
ColumnStats(records, hdr, i) ==
  IF i = 0 THEN NoStats
  ELSE Accumulate(ColumnStats(records, hdr, i - 1),
                  parseNumberAndFormat(getValueForHeader(records[i], hdr)))

----------------------------------------------------------------------------
(* The detail sheet ("Detaljeret oversigt")                                *)

\* detParsed.headers.map(h => (h || "").trim()).filter(h => /^\d{1,2}$/.test(h))
detDays(headers) ==
  SelectSeq([c \in 1..Len(headers) |-> Trim(headers[c])], IsDayLabel)

DET_HEADERS(headers) == DET_BASE_HEADERS \o detDays(headers)

\* mutant: day columns are resolved like count columns
DetCell_DaysResolved(obj, hdr) ==
  LET raw == getValueForHeader(obj, hdr)
      parsed == parseNumberAndFormat(raw)
  IN  IF IsDayLabel(hdr) \/ hdr \in COUNT_HEADERS
        THEN IF parsed.ok
               THEN Cell(NumValue(parsed.num),
                         NumberFmt(IF parsed.groupingUsed
                                     THEN decFmtGrouped(parsed.decimals)
                                     ELSE decFmt(parsed.decimals)),
                         TRUE)
               ELSE Cell(TextOrNull(raw), NoFmt, TRUE)
      ELSE IF hdr \in MONEY_HEADERS \/ hdr \in AVG_PRICE_HEADERS
        THEN IF parsed.ok
               THEN Cell(NumValue(parsed.num), NumberFmt(parsed.fmt), TRUE)
               ELSE Cell(TextOrNull(raw), NoFmt, TRUE)
      ELSE Cell(TextOrNull(raw), NoFmt, FALSE)

\* the cell written for one record and one header of the detail sheet
DetCell(obj, hdr) ==
  LET raw == getValueForHeader(obj, hdr)
      parsed == parseNumberAndFormat(raw)
  IN  IF IsDayLabel(hdr) THEN Cell(TextOrNull(raw), GeneralFmt, FALSE)
      ELSE IF hdr \in COUNT_HEADERS
        THEN IF parsed.ok
               THEN Cell(NumValue(parsed.num),
                         NumberFmt(IF parsed.groupingUsed
                                     THEN decFmtGrouped(parsed.decimals)
                                     ELSE decFmt(parsed.decimals)),
                         TRUE)
               ELSE Cell(TextOrNull(raw), NoFmt, TRUE)
      ELSE IF hdr \in MONEY_HEADERS \/ hdr \in AVG_PRICE_HEADERS
        THEN IF parsed.ok
               THEN Cell(NumValue(parsed.num), NumberFmt(parsed.fmt), TRUE)
               ELSE Cell(TextOrNull(raw), NoFmt, TRUE)
      ELSE Cell(TextOrNull(raw), NoFmt, FALSE)

\* detParsed.rows.forEach: record i goes to row HEADER_ROW_INDEX + i
WriteDetRows(ws, records, labels) ==
  [ws EXCEPT
     !.cells = [p \in ((HEADER_ROW_INDEX + 1)..(HEADER_ROW_INDEX + Len(records)))
                        \X (1..Len(labels)) |->
                  DetCell(records[p[1] - HEADER_ROW_INDEX], labels[p[2]])]
               @@ @,
     !.layout = @ \o [i \in 1..Len(records) |-> Elem("data", HEADER_ROW_INDEX + i)]]

DetSumHeaders ==
  << <<"I", " ", "a", "l", "t", ",", " ", "k", "r">>,
     <<"S", "a", "l", "t", "n", "i", "n", "g", ",", " ", "k", "r">>,
     <<"S", "a", "l", "t", ",", " ", "a", "n", "t", "a", "l">>,
     <<"S", "a", "l", "t", ",", " ", "g", "n", "s", ".", " ", "p", "r", "i", "s">> >>

\* the number format applyTotalFmt gives the totals cell of hdr
TotalFmt(hdr, stats) ==
  LET d == Max2(stats.decimals, 0)
  IN  IF stats.grouping \/ hdr \in MONEY_HEADERS
        THEN NumberFmt(decFmtGrouped(d))
        ELSE NumberFmt(decFmt(d))

\* applyTotalFmt(hdr, colIdx)
applyTotalFmt(ws, records, totalsRow, hdr, colIdx) ==
  IF colIdx = 0 THEN ws
  ELSE [ws EXCEPT
          !.cells = (<<totalsRow, colIdx>> :>
                       [GetCell(ws.cells, totalsRow, colIdx) EXCEPT
                          !.numFmt = TotalFmt(hdr, ColumnStats(records, hdr, Len(records)))])
                    @@ @]

RECURSIVE ApplyTotalFmts(_, _, _, _, _)
ApplyTotalFmts(ws, records, totalsRow, labels, k) ==
  IF k > Len(DetSumHeaders) THEN ws
  ELSE ApplyTotalFmts(
         applyTotalFmt(ws, records, totalsRow, DetSumHeaders[k],
                       ColIndex(labels, DetSumHeaders[k])),
         records, totalsRow, labels, k + 1)

\* todayDk(), or the extracted_at of the request
FooterDate == <<"d", "d", "-", "m", "m", "-", "y", "y", "y", "y">>

\* totals row and footer of the detail sheet
DetTotalsAndFooter(ws, records, labels) ==
  LET detLast == HEADER_ROW_INDEX + Len(records)
      detTotalsRow == detLast + 1
      cols == [k \in 1..Len(DetSumHeaders) |-> ColIndex(labels, DetSumHeaders[k])]
      colsToSum == SelectSeq(cols, LAMBDA c : c # 0)
      bordered == addBorders(ws, HEADER_ROW_INDEX + 1, detLast, 1, Len(labels))
      summed == IF colsToSum # <<>>
                  THEN writeSumFormulas(bordered, detTotalsRow, colsToSum,
                                        HEADER_ROW_INDEX + 1, detLast)
                  ELSE bordered
  IN  IF detLast >= HEADER_ROW_INDEX + 1
        THEN writeFooter(ApplyTotalFmts(summed, records, detTotalsRow, labels, 1),
                         1, 3, detTotalsRow, FooterDate)
        ELSE writeFooter(ws, 1, 3, HEADER_ROW_INDEX, FooterDate)

\* title || otherTitle || ""
OrElse(a, b) == IF a # <<>> THEN a ELSE b

BuildDetSheet(det, sap) ==
  LET labels == DET_HEADERS(det.headers)
      titled == setTitle(EmptySheet, OrElse(det.title, sap.title), Len(labels))
      subtitled == setSubtitle(titled, OrElse(det.subtitle, sap.subtitle), Len(labels))
      rows == WriteDetRows(writeHeader(subtitled, labels), det.rows, labels)
  IN  DetTotalsAndFooter(rows, det.rows, labels)

----------------------------------------------------------------------------
(* The SAP sheet                                                           *)

\* the cell written for one record and one header of the SAP sheet
SapCell(obj, hdr) ==
  LET raw == getValueForHeader(obj, hdr)
      parsed == parseNumberAndFormat(raw)
  IN  IF parsed.ok
        THEN Cell(NumValue(parsed.num), NumberFmt(parsed.fmt), TRUE)
        ELSE Cell(TextOrNull(raw), NoFmt, TRUE)

\* sapParsed.rows.forEach: record i goes to row HEADER_ROW_INDEX + i
WriteSapRows(ws, records) ==
  [ws EXCEPT
     !.cells = [p \in ((HEADER_ROW_INDEX + 1)..(HEADER_ROW_INDEX + Len(records)))
                        \X (1..Len(SAP_HEADERS)) |->
                  SapCell(records[p[1] - HEADER_ROW_INDEX], SAP_HEADERS[p[2]])]
               @@ @,
     !.layout = @ \o [i \in 1..Len(records) |-> Elem("data", HEADER_ROW_INDEX + i)]]

PrisExMoms == <<"P", "r", "i", "s", " ", "e", "x", ".", " ", "m", "o", "m", "s">>

\* the number format of the SAP totals cell
SapTotalFmt(stats) ==
  LET d == IF stats.decimals > 0 THEN stats.decimals ELSE 2
  IN  IF stats.grouping THEN NumberFmt(decFmtGrouped(d)) ELSE NumberFmt(decFmt(d))

\* mutant: the totals row is written whether or not there are records
SapTotalsAndFooter_Always(ws, records) ==
  LET sapLast == HEADER_ROW_INDEX + Len(records)
      sapTotalsRow == sapLast + 1
      hIdx == ColIndex(SAP_HEADERS, PrisExMoms)
      summed == writeSumFormulas(ws, sapTotalsRow, <<hIdx>>,
                                 HEADER_ROW_INDEX + 1, sapLast)
  IN  writeFooter(summed, 1, 3, sapTotalsRow, FooterDate)

\* totals row and footer of the SAP sheet
SapTotalsAndFooter(ws, records) ==
  LET sapLast == HEADER_ROW_INDEX + Len(records)
      sapTotalsRow == sapLast + 1
      hIdx == ColIndex(SAP_HEADERS, PrisExMoms)
      bordered == addBorders(ws, HEADER_ROW_INDEX + 1, sapLast, 1, Len(SAP_HEADERS))
      summed == writeSumFormulas(bordered, sapTotalsRow, <<hIdx>>,
                                 HEADER_ROW_INDEX + 1, sapLast)
      formatted ==
        [summed EXCEPT
           !.cells = (<<sapTotalsRow, hIdx>> :>
                        [GetCell(summed.cells, sapTotalsRow, hIdx) EXCEPT
                           !.numFmt = SapTotalFmt(
                                        ColumnStats(records, PrisExMoms, Len(records)))])
                     @@ @]
  IN  IF sapLast >= HEADER_ROW_INDEX + 1
        THEN writeFooter(IF hIdx # 0 THEN formatted ELSE bordered,
                         1, 3, sapTotalsRow, FooterDate)
        ELSE writeFooter(ws, 1, 3, HEADER_ROW_INDEX, FooterDate)

BuildSapSheet(sap, det) ==
  LET titled == setTitle(EmptySheet, OrElse(sap.title, det.title), Len(SAP_HEADERS))
      rows == WriteSapRows(writeHeader(titled, SAP_HEADERS), sap.rows)
  IN  SapTotalsAndFooter(rows, sap.rows)

----------------------------------------------------------------------------
(* Input documents of the model.  A detail document has the columns        *)
(* Oeko-ID, Vintercentral, Distrikt, "I alt, kr", "Salt, antal" and three  *)
(* day columns; a SAP document has the ten SAP columns.                    *)

\* Oeko-ID;Vintercentral;Distrikt;I alt, kr;Salt, antal;1;2;15
DetHeaderSorted ==
  <<"Oslash", "k", "o", "-", "I", "D", ";", "V", "i", "n", "t", "e", "r",
    "c", "e", "n", "t", "r", "a", "l", ";", "D", "i", "s", "t", "r", "i",
    "k", "t", ";", "I", " ", "a", "l", "t", ",", " ", "k", "r", ";", "S",
    "a", "l", "t", ",", " ", "a", "n", "t", "a", "l", ";", "1", ";", "2",
    ";", "1", "5">>

\* Oeko-ID;Vintercentral;Distrikt;I alt, kr;Salt, antal;15;2;2
DetHeaderUnsorted ==
  <<"Oslash", "k", "o", "-", "I", "D", ";", "V", "i", "n", "t", "e", "r",
    "c", "e", "n", "t", "r", "a", "l", ";", "D", "i", "s", "t", "r", "i",
    "k", "t", ";", "I", " ", "a", "l", "t", ",", " ", "k", "r", ";", "S",
    "a", "l", "t", ",", " ", "a", "n", "t", "a", "l", ";", "1", "5", ";",
    "2", ";", "2">>

\* Oeko-ID;Vintercentral;Distrikt;I alt, kr;Salt, antal;0;99;7
DetHeaderOutOfRange ==
  <<"Oslash", "k", "o", "-", "I", "D", ";", "V", "i", "n", "t", "e", "r",
    "c", "e", "n", "t", "r", "a", "l", ";", "D", "i", "s", "t", "r", "i",
    "k", "t", ";", "I", " ", "a", "l", "t", ",", " ", "k", "r", ";", "S",
    "a", "l", "t", ",", " ", "a", "n", "t", "a", "l", ";", "0", ";", "9",
    "9", ";", "7">>

\* Periode 01-2025;;
TitleLine ==
  <<"P", "e", "r", "i", "o", "d", "e", " ", "0", "1", "-", "2", "0", "2",
    "5", ";", ";">>

\* ;Leverandor A; 
SubtitleLine ==
  <<";", "L", "e", "v", "e", "r", "a", "n", "d", "o", "r", " ", "A", ";",
    " ">>

\* 100;VC;D1;1.234,50;3;K;S;
DetLineFull ==
  <<"1", "0", "0", ";", "V", "C", ";", "D", "1", ";", "1", ".", "2", "3",
    "4", ",", "5", "0", ";", "3", ";", "K", ";", "S", ";">>

\* ;VC;D1;;;;;
DetLineSparse ==
  <<";", "V", "C", ";", "D", "1", ";", ";", ";", ";", ";">>

\* 101;;;10;abc;7;1.234,5;
DetLineOdd ==
  <<"1", "0", "1", ";", ";", ";", "1", "0", ";", "a", "b", "c", ";", "7",
    ";", "1", ".", "2", "3", "4", ",", "5", ";">>

\* 102;;;10,55;2,5;;;K
DetLineFrac ==
  <<"1", "0", "2", ";", ";", ";", "1", "0", ",", "5", "5", ";", "2", ",",
    "5", ";", ";", ";", "K">>

\* ;;;;;;;
BlankLine8 ==
  <<";", ";", ";", ";", ";", ";", ";">>

\* Udtrukket 01-02-2025
StampLine ==
  <<"U", "d", "t", "r", "u", "k", "k", "e", "t", " ", "0", "1", "-", "0",
    "2", "-", "2", "0", "2", "5">>

\* Kontrakt;Position;Artskonto;Besrkivelse;Profitcenter;Pris inkl. moms;Momskode;Pris ex. moms;Lokation/rute;Kunde
SapHeaderLine ==
  <<"K", "o", "n", "t", "r", "a", "k", "t", ";", "P", "o", "s", "i", "t",
    "i", "o", "n", ";", "A", "r", "t", "s", "k", "o", "n", "t", "o", ";",
    "B", "e", "s", "r", "k", "i", "v", "e", "l", "s", "e", ";", "P", "r",
    "o", "f", "i", "t", "c", "e", "n", "t", "e", "r", ";", "P", "r", "i",
    "s", " ", "i", "n", "k", "l", ".", " ", "m", "o", "m", "s", ";", "M",
    "o", "m", "s", "k", "o", "d", "e", ";", "P", "r", "i", "s", " ", "e",
    "x", ".", " ", "m", "o", "m", "s", ";", "L", "o", "k", "a", "t", "i",
    "o", "n", "/", "r", "u", "t", "e", ";", "K", "u", "n", "d", "e">>

\* K1;10;4000;Vinter;PC1;1.250,00;M1;1.000,00;R1;Kunde A
SapLineGrouped ==
  <<"K", "1", ";", "1", "0", ";", "4", "0", "0", "0", ";", "V", "i", "n",
    "t", "e", "r", ";", "P", "C", "1", ";", "1", ".", "2", "5", "0", ",",
    "0", "0", ";", "M", "1", ";", "1", ".", "0", "0", "0", ",", "0", "0",
    ";", "R", "1", ";", "K", "u", "n", "d", "e", " ", "A">>

\* K2;20;4000;Salt;PC1;125;M1;100;R2;Kunde B
SapLinePlain ==
  <<"K", "2", ";", "2", "0", ";", "4", "0", "0", "0", ";", "S", "a", "l",
    "t", ";", "P", "C", "1", ";", "1", "2", "5", ";", "M", "1", ";", "1",
    "0", "0", ";", "R", "2", ";", "K", "u", "n", "d", "e", " ", "B">>

\* K3;;;;;n/a;;n/a;;
SapLineText ==
  <<"K", "3", ";", ";", ";", ";", ";", "n", "/", "a", ";", ";", "n", "/",
    "a", ";", ";">>

\* ;;;;;;;;;
BlankLine10 ==
  <<";", ";", ";", ";", ";", ";", ";", ";", ";">>

DetShapes ==
  { [pre |-> <<>>, header |-> DetHeaderSorted],
    [pre |-> <<TitleLine, SubtitleLine>>, header |-> DetHeaderUnsorted],
    [pre |-> <<TitleLine>>, header |-> DetHeaderOutOfRange] }

DetLines ==
  {DetLineFull, DetLineSparse, DetLineOdd, DetLineFrac, BlankLine8, StampLine}

SapShapes ==
  { [pre |-> <<>>, header |-> SapHeaderLine],
    [pre |-> <<TitleLine, SubtitleLine>>, header |-> SapHeaderLine] }

SapLines == {SapLineGrouped, SapLinePlain, SapLineText, BlankLine10}

\* data lines in the two inline documents of one request, taken together
MaxRows == 2

\* the documents with exactly n data lines
TextsOf(shapes, lines, n) ==
  {s.pre \o <<s.header>> \o d : s \in shapes, d \in [1..n -> lines]}

----------------------------------------------------------------------------
(* readCsvText and the request handler                                     *)

NoCsv == << <<"(no csv)">> >>

Inline(text) == [csv |-> text, url |-> FALSE]

\* a csv value that is not a string (a number, an object)
NonStringCsv == << <<"(not a string)">> >>

\* a source with no usable inline text: a url, nothing, an empty csv or a
\* csv that is not a string, with or without a url
OtherSources ==
  { [csv |-> NoCsv, url |-> TRUE], [csv |-> NoCsv, url |-> FALSE],
    [csv |-> <<>>, url |-> FALSE], [csv |-> <<>>, url |-> TRUE],
    [csv |-> NonStringCsv, url |-> FALSE],
    [csv |-> NonStringCsv, url |-> TRUE] }

\* request bodies: sheet1 is the SAP source, sheet2 the detail source
Bodies ==
  UNION { {[s1 |-> Inline(t1), s2 |-> Inline(t2)] :
             t1 \in TextsOf(SapShapes, SapLines, n[1]),
             t2 \in TextsOf(DetShapes, DetLines, n[2])} :
          n \in {m \in (0..MaxRows) \X (0..MaxRows) : m[1] + m[2] <= MaxRows} }
  \cup {[s1 |-> a, s2 |-> b] :
          a \in OtherSources
                 \cup {[csv |-> <<SapHeaderLine, SapLineGrouped>>, url |-> TRUE]},
          b \in OtherSources
                 \cup {[csv |-> <<DetHeaderSorted, DetLineFrac>>, url |-> TRUE]}}
  \cup {[s1 |-> a, s2 |-> Inline(t)] :
          a \in OtherSources, t \in TextsOf(DetShapes, DetLines, 1)}
  \cup {[s1 |-> Inline(t), s2 |-> b] :
          t \in TextsOf(SapShapes, SapLines, 1), b \in OtherSources}

\* what a successful fetch may deliver
FetchedSap == {<<>>, <<SapHeaderLine, SapLinePlain>>}

FetchedDet == {<<>>, <<DetHeaderSorted, DetLineFull>>}

NoText == << <<"(not read)">> >>

NoRequest == [method |-> "", s1 |-> Inline(NoCsv), s2 |-> Inline(NoCsv)]

NotParsedYet ==
  [title |-> <<>>, subtitle |-> <<>>, headers |-> <<>>, rows |-> <<>>,
   headerIdx |-> -1, delimiter |-> ""]

Response(status, kind) == [status |-> status, kind |-> kind]

\* res.status(405).json({ error: "Use POST" })
MethodNotAllowed == Response(405, "json error")

\* res.status(400).json({ error: e.message, stack: e.stack })
BadRequest == Response(400, "json error")

\* res.status(200).send(buf)
WorkbookSent == Response(200, "workbook")

HandlerInit ==
  /\ pc = "idle"
  /\ req = NoRequest
  /\ sapText = NoText
  /\ detText = NoText
  /\ sapParsed = NotParsedYet
  /\ detParsed = NotParsedYet
  /\ wsDET = NoSheet
  /\ wsSAP = NoSheet
  /\ sent = <<>>
  /\ fetches = <<>>

\* mutant: workbook bytes leave before the error response
Fail_AfterPartialSend ==
  /\ sent' = sent \o <<WorkbookSent, BadRequest>>
  /\ pc' = "done"

\* the catch block
Fail ==
  /\ sent' = Append(sent, BadRequest)
  /\ pc' = "done"

\* req.method !== "POST"
RejectMethod ==
  /\ pc = "idle"
  /\ \E m \in {"GET", "PUT"} : req' = [NoRequest EXCEPT !.method = m]
  /\ sent' = Append(sent, MethodNotAllowed)
  /\ pc' = "done"
  /\ UNCHANGED <<resolverVars, sapText, detText, sapParsed, detParsed, wsDET, wsSAP, fetches>>

\* a POST whose body parses
AcceptPost ==
  /\ pc = "idle"
  /\ \E b \in Bodies : req' = [method |-> "POST", s1 |-> b.s1, s2 |-> b.s2]
  /\ pc' = "readSap"
  /\ UNCHANGED <<resolverVars, sapText, detText, sapParsed, detParsed, wsDET, wsSAP, sent, fetches>>

\* a POST whose body is a string JSON.parse rejects
BadBody ==
  /\ pc = "idle"
  /\ req' = [NoRequest EXCEPT !.method = "POST"]
  /\ Fail
  /\ UNCHANGED <<resolverVars, sapText, detText, sapParsed, detParsed, wsDET, wsSAP, fetches>>

\* mutant: a url takes precedence over the inline text
HasInline_UnlessUrl(src) ==
  src.csv \notin {NoCsv, NonStringCsv, <<>>} /\ ~src.url

\* csv && typeof csv === "string"
HasInline(src) == src.csv \notin {NoCsv, NonStringCsv, <<>>}

\* mutant: a failed SAP fetch is tried a second time before the request fails
ReadSap_Retry ==
  /\ pc = "readSap"
  /\ \/ /\ HasInline(req.s1)
        /\ sapText' = req.s1.csv
        /\ pc' = "readDet"
        /\ UNCHANGED <<sent, fetches>>
     \/ /\ ~HasInline(req.s1) /\ ~req.s1.url
        /\ sapText' = <<>>
        /\ pc' = "readDet"
        /\ UNCHANGED <<sent, fetches>>
     \/ /\ ~HasInline(req.s1) /\ req.s1.url
        /\ fetches' = Append(fetches, "sap")
        /\ \E t \in FetchedSap : sapText' = t
        /\ pc' = "readDet"
        /\ UNCHANGED sent
     \/ /\ ~HasInline(req.s1) /\ req.s1.url
        /\ fetches' = fetches \o <<"sap", "sap">>
        /\ Fail
        /\ UNCHANGED sapText
  /\ UNCHANGED <<resolverVars, req, detText, sapParsed, detParsed, wsDET, wsSAP>>

\* readCsvText for the SAP document
ReadSap ==
  /\ pc = "readSap"
  /\ \/ /\ HasInline(req.s1)
        /\ sapText' = req.s1.csv
        /\ pc' = "readDet"
        /\ UNCHANGED <<sent, fetches>>
     \/ /\ ~HasInline(req.s1) /\ ~req.s1.url
        /\ sapText' = <<>>
        /\ pc' = "readDet"
        /\ UNCHANGED <<sent, fetches>>
     \/ /\ ~HasInline(req.s1) /\ req.s1.url
        /\ fetches' = Append(fetches, "sap")
        /\ \E t \in FetchedSap : sapText' = t
        /\ pc' = "readDet"
        /\ UNCHANGED sent
     \/ /\ ~HasInline(req.s1) /\ req.s1.url
        /\ fetches' = Append(fetches, "sap")
        /\ Fail
        /\ UNCHANGED sapText
  /\ UNCHANGED <<resolverVars, req, detText, sapParsed, detParsed, wsDET, wsSAP>>

\* readCsvText for the detail document
ReadDet ==
  /\ pc = "readDet"
  /\ \/ /\ HasInline(req.s2)
        /\ detText' = req.s2.csv
        /\ pc' = "parse"
        /\ UNCHANGED <<sent, fetches>>
     \/ /\ ~HasInline(req.s2) /\ ~req.s2.url
        /\ detText' = <<>>
        /\ pc' = "parse"
        /\ UNCHANGED <<sent, fetches>>
     \/ /\ ~HasInline(req.s2) /\ req.s2.url
        /\ fetches' = Append(fetches, "det")
        /\ \E t \in FetchedDet : detText' = t
        /\ pc' = "parse"
        /\ UNCHANGED sent
     \/ /\ ~HasInline(req.s2) /\ req.s2.url
        /\ fetches' = Append(fetches, "det")
        /\ Fail
        /\ UNCHANGED detText
  /\ UNCHANGED <<resolverVars, req, sapText, sapParsed, detParsed, wsDET, wsSAP>>

\* the two parseCsvFlexible calls
ParseBoth ==
  /\ pc = "parse"
  /\ sapParsed' = parseCsvFlexible(sapText, SapExpectKeys, SapOpts)
  /\ detParsed' = parseCsvFlexible(detText, DetExpectKeys, DetOpts)
  /\ pc' = "writeDet"
  /\ UNCHANGED <<resolverVars, req, sapText, detText, wsDET, wsSAP, sent, fetches>>

WriteDet ==
  /\ pc = "writeDet"
  /\ wsDET' = BuildDetSheet(detParsed, sapParsed)
  /\ pc' = "writeSap"
  /\ UNCHANGED <<resolverVars, req, sapText, detText, sapParsed, detParsed, wsSAP, sent, fetches>>

WriteSap ==
  /\ pc = "writeSap"
  /\ wsSAP' = BuildSapSheet(sapParsed, detParsed)
  /\ pc' = "send"
  /\ UNCHANGED <<resolverVars, req, sapText, detText, sapParsed, detParsed, wsDET, sent, fetches>>

\* toBuffer resolves and the workbook is sent
SendWorkbook ==
  /\ pc = "send"
  /\ sent' = Append(sent, WorkbookSent)
  /\ pc' = "done"
  /\ UNCHANGED <<resolverVars, req, sapText, detText, sapParsed, detParsed, wsDET, wsSAP, fetches>>

\* toBuffer rejects (the stream or the writer fails)
SendFails ==
  /\ pc = "send"
  /\ Fail
  /\ UNCHANGED <<resolverVars, req, sapText, detText, sapParsed, detParsed, wsDET, wsSAP, fetches>>

HandlerNext ==
  \/ RejectMethod
  \/ AcceptPost
  \/ BadBody
  \/ ReadSap
  \/ ReadDet
  \/ ParseBoth
  \/ WriteDet
  \/ WriteSap
  \/ SendWorkbook
  \/ SendFails

----------------------------------------------------------------------------
(* Resolver run: a token is typed fragment by fragment and resolved.       *)

MaxPieces == 5

Pieces ==
  { <<"1">>, <<"2", "3", "4">>, <<"5", "6">>, <<".">>, <<",">>, <<";">>,
    <<"k">>, <<" ">>, <<"nbsp">>, <<"thin">> }

NotRun == [ran |-> FALSE, pnf |-> NotParsed, tnm |-> NoNumber]

ResolverInit ==
  /\ tok = <<>>
  /\ npieces = 0
  /\ res = NotRun

TypePiece ==
  /\ npieces < MaxPieces
  /\ \E p \in Pieces : tok' = tok \o p
  /\ npieces' = npieces + 1
  /\ res' = NotRun
  /\ UNCHANGED handlerVars

Resolve ==
  /\ ~res.ran
  /\ res' = [ran |-> TRUE, pnf |-> parseNumberAndFormat(tok),
             tnm |-> toNumberMaybe(tok)]
  /\ UNCHANGED <<tok, npieces, handlerVars>>

ResolverNext == TypePiece \/ Resolve

Init == ResolverInit /\ HandlerInit

\* the resolver applied to typed tokens
SpecResolver == Init /\ [][ResolverNext]_vars

\* one request through the handler
Spec == Init /\ [][HandlerNext]_vars

----------------------------------------------------------------------------
(* Shape detection run: both texts arrive by fetch and go through parsing  *)
(* and sheet writing.  The texts vary where the handler run's texts do     *)
(* not: in the delimiter, the place of the header row, the spelling of the *)
(* labels and the rows above the header.                                   *)

\* detail texts: header rows at several places, the three delimiters,
\* drifted labels, title and subtitle rows
ShapeDetDocs ==
  { \* Distrikt;7 / Oeko-ID;Distrikt;7 / A;B;K
    << <<"D", "i", "s", "t", "r", "i", "k", "t", ";", "7">>,
       <<"Oslash", "k", "o", "-", "I", "D", ";", "D", "i", "s", "t", "r",
            "i", "k", "t", ";", "7">>,
       <<"A", ";", "B", ";", "K">> >>,
    \* two rows with the same score
    << <<"Oslash", "k", "o", "-", "I", "D", ";", "D", "i", "s", "t", "r",
         "i", "k", "t">>,
       <<"D", "i", "s", "t", "r", "i", "k", "t", ";", "Oslash", "k", "o",
            "-", "I", "D">>,
       <<"A", ";", "B">> >>,
    \* comma delimited
    << <<"Oslash", "k", "o", "-", "I", "D", ",", "D", "i", "s", "t", "r",
         "i", "k", "t">>,
       <<"1", ",", "2">> >>,
    \* tab delimited
    << <<"Oslash", "k", "o", "-", "I", "D", "\t", "D", "i", "s", "t", "r",
         "i", "k", "t">>,
       <<"1", "\t", "2">> >>,
    \* the same best score under ';' and ','
    << <<"Oslash", "k", "o", "-", "I", "D", ";", "x">>,
       <<"D", "i", "s", "t", "r", "i", "k", "t", ",", "y">> >>,
    \* a higher score under ',' than under ';'
    << <<"Oslash", "k", "o", "-", "I", "D", ";", "x">>,
       <<"D", "i", "s", "t", "r", "i", "k", "t", ",", "O", "m", "r",
            "aring", "d", "e", ",", "y">> >>,
    \* no expected label at all
    << <<"f", "o", "o", ";", "b", "a", "r">>,
       <<"b", "a", "z", ";", "q", "u", "x">> >>,
    \* header drift: case, white space, commas
    << <<" ", "oslash", "K", "O", "-", "i", "d", " ", ";", "i", " ", "a",
         "l", "t", " ", "k", "r">>,
       <<"5", ";", "1", "0">> >>,
    \* header drift next to a day column
    << <<"oslash", "k", "o", "-", "i", "d", ";", "I", " ", "A", "L", "T",
         " ", "K", "R", ";", "7">>,
       <<"5", ";", "1", "0", ";", "K">> >>,
    \* exact and drifted keys, an integer-like key first
    << <<"7", ";", "d", "i", "s", "t", "r", "i", "k", "t", ";", "D", "I",
         "S", "T", "R", "I", "K", "T", ";", "Oslash", "k", "o", "-", "I", "D">>,
       <<"K", ";", "a", ";", "b", ";", "1">> >>,
    \* a drifted key before the exact key
    << <<"d", "i", "s", "t", "r", "i", "k", "t", ";", "D", "i", "s", "t",
         "r", "i", "k", "t", ";", "Oslash", "k", "o", "-", "I", "D">>,
       <<"a", ";", "b", ";", "1">> >>,
    \* labels holding commas
    << <<"I", " ", "a", "l", "t", ",", " ", "k", "r", ";", "S", "a", "l",
         "t", ",", " ", "a", "n", "t", "a", "l">>,
       <<"1", ";", "2">> >>,
    \* title, blank row, subtitle, header
    << <<"P", "e", "r", "i", "o", "d", "e", " ", "0", "1">>,
       <<>>,
       <<"L", "e", "v", " ", "A", ";", " ", "L", "e", "v", " ", "B">>,
       <<"Oslash", "k", "o", "-", "I", "D", ";", "D", "i", "s", "t", "r",
            "i", "k", "t">>,
       <<"1", ";", "2">> >>,
    \* title directly above the header
    << <<"P", "E", "R", "I", "O", "D", "E", " ", "x">>,
       <<"Oslash", "k", "o", "-", "I", "D", ";", "D", "i", "s", "t", "r",
            "i", "k", "t">>,
       <<"1", ";", "2">> >>,
    \* no title, a subtitle
    << <<"R", "a", "p", "p", "o", "r", "t">>,
       <<"S", "u", "b">>,
       <<"Oslash", "k", "o", "-", "I", "D", ";", "D", "i", "s", "t", "r",
            "i", "k", "t">>,
       <<"1", ";", "2">> >>,
    \* title after a space, white space row
    << <<" ", "P", "e", "r", "i", "o", "d", "e", " ", "2">>,
       <<" ", ";", " ">>,
       <<"Oslash", "k", "o", "-", "I", "D", ";", "D", "i", "s", "t", "r",
            "i", "k", "t">>,
       <<"1", ";", "2">> >>,
    \* the header row begins with the title word
    << <<"P", "e", "r", "i", "o", "d", "e", ";", "Oslash", "k", "o", "-",
         "I", "D", ";", "D", "i", "s", "t", "r", "i", "k", "t">>,
       <<"1", ";", "2", ";", "3">> >>,
    \* two rows between title and header
    << <<"P", "e", "r", "i", "o", "d", "e", " ", "1">>,
       <<"S", "u", "b", "1">>,
       <<"S", "u", "b", "2">>,
       <<"Oslash", "k", "o", "-", "I", "D", ";", "D", "i", "s", "t", "r",
            "i", "k", "t">>,
       <<"1", ";", "2">> >>,
    \* a title cell that ends in a stray double quote
    << <<"p", "e", "r", "i", "o", "d", "e", " ", "3", "\"">>,
       <<"Oslash", "k", "o", "-", "I", "D", ";", "D", "i", "s", "t", "r",
            "i", "k", "t">>,
       <<"1", ";", "2">> >>,
    \* 12 filler rows, then the header at index 12
    [i \in 1..12 |-> <<"x">>] \o << <<"Oslash", "k", "o", "-", "I", "D",
         ";", "D", "i", "s", "t", "r", "i", "k", "t">>, <<"1", ";", "2">> >>,
    \* one label at index 3, the full header at index 12
    [i \in 1..12 |-> IF i = 4 THEN <<"D", "i", "s", "t", "r", "i", "k", "t",
         ";", "y">> ELSE <<"x">>]
      \o << <<"Oslash", "k", "o", "-", "I", "D", ";", "D", "i", "s", "t",
           "r", "i", "k", "t">>, <<"1", ";", "2">> >>,
    \* the header at index 11, the last row of the window
    [i \in 1..11 |-> <<"x">>] \o << <<"Oslash", "k", "o", "-", "I", "D",
         ";", "D", "i", "s", "t", "r", "i", "k", "t">>, <<"1", ";", "2">> >>,
    <<>> }

\* SAP texts
ShapeSapDocs ==
  { \* comma delimited
    << <<"K", "o", "n", "t", "r", "a", "k", "t", ",", "K", "u", "n", "d",
         "e">>,
       <<"K", "1", ",", "K", "u", "n", "d", "e", " ", "A">> >>,
    \* header drift
    << <<"P", "R", "I", "S", " ", "E", "X", ".", " ", "M", "O", "M", "S",
         ";", "K", "U", "N", "D", "E", ";", "K", "o", "n", "t", "r", "a", "k",
         "t">>,
       <<"1", "0", "0", ";", "K", "u", "n", "d", "e", " ", "A", ";", "K",
            "1">> >>,
    \* no expected label
    << <<"f", "o", "o", ";", "b", "a", "r">> >>,
    << TitleLine, SubtitleLine, SapHeaderLine, SapLineGrouped >>,
    << SapHeaderLine, SapLinePlain >>,
    <<>> }

\* a POST naming two urls; both fetches succeed
ReceiveTexts ==
  /\ pc = "idle"
  /\ req' = [method |-> "POST", s1 |-> [csv |-> NoCsv, url |-> TRUE],
             s2 |-> [csv |-> NoCsv, url |-> TRUE]]
  /\ \E s \in ShapeSapDocs : sapText' = s
  /\ \E d \in ShapeDetDocs : detText' = d
  /\ fetches' = <<"sap", "det">>
  /\ pc' = "parse"
  /\ UNCHANGED <<resolverVars, sapParsed, detParsed, wsDET, wsSAP, sent>>

ShapeNext ==
  \/ ReceiveTexts
  \/ ParseBoth
  \/ WriteDet
  \/ WriteSap

SpecShape == Init /\ [][ShapeNext]_vars

----------------------------------------------------------------------------
(* Claims about the numeric resolver, checked under SpecResolver           *)

\* the decimal denoted by "ddd" or "ddd.ddd"
ReadDecimal(s) ==
  LET p == Split(s, ".")
  IN  Num(p[1], IF Len(p) >= 2 THEN p[2] ELSE <<>>)

\* ^\d{1,3}(\.\d{3})*(,\d+)?$
IsDotGrouped(t) == GroupedRegex(t, ".", ",", 0)

\* ^\d{1,3}(,\d{3})+(\.\d+)?$
IsCommaGrouped(t) == GroupedRegex(t, ",", ".", 1)

BothResolve(want) ==
  /\ res.pnf.ok /\ res.pnf.num = want
  /\ res.tnm.ok /\ res.tnm.num = want

(* C1: for every token matching ^\d{1,3}(\.\d{3})*(,\d+)?$ both           *)
(* parseNumberAndFormat and toNumberMaybe return the number written by the *)
(* token with every '.' removed and the ',' replaced by '.'.               *)
C1_DotGroupedValue ==
  (res.ran /\ IsDotGrouped(tok)) =>
     BothResolve(ReadDecimal(ReplaceFirst(RemoveAll(tok, {"."}), ",", ".")))

(* C2, as stated: for every token matching ^\d{1,3}(,\d{3})+(\.\d+)?$ both *)
(* resolvers strip every comma as grouping and return the number denoted   *)
(* by the remaining text.                                                  *)
C2_CommaGroupedValue ==
  (res.ran /\ IsCommaGrouped(tok)) =>
     BothResolve(ReadDecimal(RemoveAll(tok, {","})))

\* a single comma group and no decimal point, such as "1,234"
SingleCommaGroup(t) == ~Includes(t, ".") /\ Len(Split(t, ",")) = 2

(* C2, amended: for every token matching ^\d{1,3}(,\d{3})+(\.\d+)?$ that   *)
(* has a decimal point or more than one comma group, both resolvers strip  *)
(* every comma as grouping and return the number denoted by the remaining  *)
(* text; a token with a single comma group and no decimal point ("1,234")  *)
(* is read with the comma as the decimal separator (1.234).                *)
C2_CommaGroupedValueAmended ==
  (res.ran /\ IsCommaGrouped(tok)) =>
     BothResolve(IF SingleCommaGroup(tok)
                   THEN ReadDecimal(ReplaceFirst(tok, ",", "."))
                   ELSE ReadDecimal(RemoveAll(tok, {","})))

\* "1,234.56" has been resolved, with its commas stripped as grouping
C2_Witness ==
  /\ res.ran /\ IsCommaGrouped(tok) /\ Includes(tok, ".")
  /\ res.pnf.ok /\ res.pnf.groupingUsed /\ res.pnf.decimals = 2

\* the text the resolver works on: trimmed, without U+00A0, U+2009 and ';'
Normalised(t) == RemoveAll(Trim(t), {"nbsp", "thin", ";"})

\* the token has been resolved and holds both '.' and ','
BothPresent == res.ran /\ Includes(tok, ".") /\ Includes(tok, ",")

\* the separator whose last occurrence is the later one
LaterSeparator(t) ==
  IF LastIndexOf(t, ",") > LastIndexOf(t, ".") THEN "," ELSE "."

\* t without the other separator, its decimal separator written as '.'
StrippedOfOther(t) ==
  LET dec   == LaterSeparator(t)
      other == IF dec = "," THEN "." ELSE ","
      kept  == RemoveAll(t, {other})
  IN  [i \in 1..Len(kept) |-> IF kept[i] = dec THEN "." ELSE kept[i]]

\* the characters after the last occurrence of the decimal separator
AfterLast(t) == SubSeq(t, LastIndexOf(t, LaterSeparator(t)) + 1, Len(t))

(* C13: for every token that contains both '.' and ',', the separator      *)
(* whose last occurrence is later is the decimal separator and every       *)
(* occurrence of the other one is stripped as grouping; when the result is *)
(* a finite number, decimals is the number of characters after that last   *)
(* separator if they are all digits (otherwise 0), groupingUsed is true    *)
(* and the format is the grouped format with exactly that many fractional  *)
(* zeros; when the stripped text is not a finite number the resolver       *)
(* returns not-a-number.                                                   *)
C13_BothSeparators ==
  BothPresent =>
    LET t     == Normalised(tok)
        value == JsNumber(StrippedOfOther(t))
        after == AfterLast(t)
        d     == IF after # <<>> /\ AllDigits(after) THEN Len(after) ELSE 0
    IN  IF IsFinite(value)
          THEN res.pnf = [ok |-> TRUE, num |-> value,
                          fmt |-> [grouped |-> TRUE, dec |-> d],
                          decimals |-> d, groupingUsed |-> TRUE]
          ELSE ~res.pnf.ok

\* "1.234,56" has been resolved: the comma is the later separator
C13_Witness ==
  /\ BothPresent /\ LaterSeparator(tok) = ","
  /\ res.pnf.ok /\ res.pnf.decimals = 2 /\ res.pnf.fmt.dec = 2

\* the token has been resolved and holds sep but not the other separator
OnlySeparator(sep) ==
  /\ res.ran /\ Includes(tok, sep)
  /\ ~Includes(tok, IF sep = "," THEN "." ELSE ",")

\* sep occurs exactly once in t and is followed by 1-3 digits up to the end
DecimalUse(t, sep) ==
  LET at == {i \in 1..Len(t) : t[i] = sep}
  IN  /\ Cardinality(at) = 1
      /\ \E i \in at :
            /\ Len(t) - i \in 1..3
            /\ \A j \in (i + 1)..Len(t) : t[j] \in Digits

\* what the claim expects for a token holding only the separator sep
SingleSeparatorRule(sep) ==
  LET t       == Normalised(tok)
      semi    == Includes(tok, ";")
      decimal == JsNumber([i \in 1..Len(t) |->
                             IF t[i] = sep THEN "." ELSE t[i]])
      whole   == JsNumber(RemoveAll(t, {sep}))
  IN  IF DecimalUse(t, sep)
        THEN IF IsFinite(decimal)
               THEN /\ res.pnf.ok /\ res.pnf.num = decimal
                    /\ res.pnf.decimals = Len(t) - LastIndexOf(t, sep)
                    /\ res.pnf.groupingUsed = semi
               ELSE ~res.pnf.ok
        ELSE IF IsFinite(whole)
               THEN /\ res.pnf.ok /\ res.pnf.num = whole
                    /\ res.pnf.decimals = 0
                    /\ res.pnf.groupingUsed
               ELSE ~res.pnf.ok

(* C14: when only one separator type sep ('.' or ',') appears in the       *)
(* token, sep is the decimal separator only if it occurs exactly once and  *)
(* is followed by 1 to 3 digits up to the end of the token (decimals is    *)
(* the number of those digits, groupingUsed is left as the ';' test set    *)
(* it); otherwise every sep is stripped as grouping, decimals is 0 and     *)
(* groupingUsed is true: "1.23456" is 123456, "1,234,567" is 1234567.      *)
C14_SingleSeparator ==
  /\ OnlySeparator(".") => SingleSeparatorRule(".")
  /\ OnlySeparator(",") => SingleSeparatorRule(",")

\* "1.23456" has been resolved to 123456 with the dot stripped as grouping
C14_Witness ==
  /\ OnlySeparator(".") /\ tok = <<"1", ".", "2", "3", "4", "5", "6">>
  /\ res.pnf.ok /\ res.pnf.num = Num(<<"1", "2", "3", "4", "5", "6">>, <<>>)
  /\ res.pnf.decimals = 0 /\ res.pnf.groupingUsed

\* the token without its grouping glyphs ';' and without any white space
Cleaned(t) == RemoveAll(t, WhiteSpace \cup {";"})

(* C19: before deciding separators the resolver removes every ';' and      *)
(* every internal space of the token (ordinary, non-breaking and thin), so *)
(* a token that is a valid number once these are removed resolves to that  *)
(* number with its decimals: "1 234,56", "1<nbsp>234,56" and "1;234,56"    *)
(* all resolve to 1234.56 with 2 decimals, none to not-a-number.           *)
C19_GlyphsAndSpacesRemoved ==
  LET clean == parseNumberAndFormat(Cleaned(tok))
  IN  (res.ran /\ clean.ok) =>
        /\ res.pnf.ok
        /\ res.pnf.num = clean.num
        /\ res.pnf.decimals = clean.decimals

----------------------------------------------------------------------------
(* Claims about the request pipeline, checked under Spec                   *)

\* both parseCsvFlexible calls have returned
BothParsed == detParsed # NotParsedYet /\ sapParsed # NotParsedYet

\* both sheets have been written
BothWritten == wsDET # NoSheet /\ wsSAP # NoSheet

\* the rows after the header row that isNoiseRow does not reject, as records
NonNoiseRecords(text, parsed) ==
  LET rows == PapaParse(StripBom(text), parsed.delimiter)
      after == SubSeq(rows, parsed.headerIdx + 2, Len(rows))
      kept == SelectSeq(after, LAMBDA arr : ~isNoiseRow(arr))
  IN  [i \in 1..Len(kept) |-> MakeRecord(parsed.headers, kept[i])]

(* C3: the records parseCsvFlexible returns for a document are exactly the *)
(* rows after the detected header row for which isNoiseRow is false, in    *)
(* source order: no non-noise row is dropped (sparse rows included) and no *)
(* two rows are reordered.                                                 *)
C3_NoRowDropped ==
  BothParsed =>
    /\ detParsed.rows = NonNoiseRecords(detText, detParsed)
    /\ sapParsed.rows = NonNoiseRecords(sapText, sapParsed)

\* row of the i-th record, and of the totals below K records
DataRow(i) == HEADER_ROW_INDEX + i

TotalsRow(K) == HEADER_ROW_INDEX + K + 1

\* the decimal places of the number formats of the parsed data cells of column c
DataDecimals(ws, K, c) ==
  {GetCell(ws.cells, DataRow(i), c).numFmt.dec :
     i \in {j \in 1..K : GetCell(ws.cells, DataRow(j), c).v.t = "number"}}

\* the decimal places of the number format of the totals cell of column c
TotalDecimals(ws, K, c) ==
  LET total == GetCell(ws.cells, TotalsRow(K), c)
  IN  IF total.v.t = "formula" THEN {total.numFmt.dec} ELSE {}

\* the maximum decimals over the parsed cells of a column, -1 when none parsed
MaxDecimals(records, hdr) == ColumnStats(records, hdr, Len(records)).decimals

UniformDecimals(ws, records, labels) ==
  \A c \in 1..Len(labels) :
    MaxDecimals(records, labels[c]) >= 0 =>
      (DataDecimals(ws, Len(records), c) \cup TotalDecimals(ws, Len(records), c))
        \subseteq {MaxDecimals(records, labels[c])}

(* C4: once a sheet is written, in each numeric column the number format   *)
(* of every data cell holding a parsed number and of the column's totals   *)
(* cell all have the same count of decimal places: the maximum decimals    *)
(* the resolver returned over the column's successfully parsed cells.      *)
C4_UniformDecimals ==
  BothWritten =>
    /\ UniformDecimals(wsDET, detParsed.rows, DET_HEADERS(detParsed.headers))
    /\ UniformDecimals(wsSAP, sapParsed.rows, SAP_HEADERS)

\* a number with at most three fraction digits, in thousandths
Milli(n) ==
  TextToInt(n.i) * 1000 + TextToInt(SubSeq(n.f \o <<"0", "0", "0">>, 1, 3))

\* the column a column letter names
ColumnOfLetters(letters) == CHOOSE n \in 1..60 : numberToColumn(n) = letters

\* SUM over the rows from..to of column c: cells that hold no number add 0
RECURSIVE SumRange(_, _, _, _)
SumRange(cells, c, from, to) ==
  IF from > to THEN 0
  ELSE (LET cell == GetCell(cells, from, c)
        IN  IF cell.v.t = "number" THEN Milli(cell.v.num) ELSE 0)
       + SumRange(cells, c, from + 1, to)

\* the value the SUM formula in cell (r, c) evaluates to, in thousandths
Evaluate(ws, r, c) ==
  LET v == GetCell(ws.cells, r, c).v
  IN  SumRange(ws.cells, ColumnOfLetters(v.col), v.from, v.to)

\* the sum of the tokens of column hdr the resolver parsed, in thousandths
RECURSIVE ParsedSum(_, _, _)
ParsedSum(records, hdr, i) ==
  IF i = 0 THEN 0
  ELSE ParsedSum(records, hdr, i - 1)
       + (LET p == parseNumberAndFormat(getValueForHeader(records[i], hdr))
          IN  IF p.ok THEN Milli(p.num) ELSE 0)

NonEmptyToken(raw) == raw # Null /\ raw # <<>>

SummedColumn(ws, records, labels, hdr) ==
  LET c == ColIndex(labels, hdr)
      K == Len(records)
  IN  K >= 1 =>
        /\ GetCell(ws.cells, TotalsRow(K), c).v.t = "formula"
        /\ Evaluate(ws, TotalsRow(K), c) = ParsedSum(records, hdr, K)
        /\ \A i \in 1..K :
             LET raw == getValueForHeader(records[i], hdr)
                 p == parseNumberAndFormat(raw)
                 cell == GetCell(ws.cells, DataRow(i), c)
             IN  /\ p.ok => cell.v = NumValue(p.num)
                 /\ (~p.ok /\ NonEmptyToken(raw)) => cell.v = TextValue(raw)

(* C5: for each summed column (detail: "I alt, kr", "Saltning, kr",        *)
(* "Salt, antal", "Salt, gns. pris"; SAP: "Pris ex. moms") the totals cell *)
(* evaluates to the sum of the values of exactly the data cells whose      *)
(* token the resolver parsed; a data cell whose non-empty token failed to  *)
(* parse holds the token text unchanged and adds nothing to the total.     *)
C5_TotalIsSumOfParsed ==
  BothWritten =>
    /\ \A k \in 1..Len(DetSumHeaders) :
         SummedColumn(wsDET, detParsed.rows, DET_HEADERS(detParsed.headers),
                      DetSumHeaders[k])
    /\ SummedColumn(wsSAP, sapParsed.rows, SAP_HEADERS, PrisExMoms)

\* a summed detail column holds an unparsed token as text next to a parsed
\* number, and its total is the parsed number alone
C5_Witness ==
  /\ BothWritten
  /\ \E k \in 1..Len(DetSumHeaders) :
       LET c == ColIndex(DET_HEADERS(detParsed.headers), DetSumHeaders[k])
           K == Len(detParsed.rows)
       IN  /\ K = 2
           /\ GetCell(wsDET.cells, DataRow(1), c).v.t = "text"
           /\ GetCell(wsDET.cells, DataRow(2), c).v.t = "number"
           /\ Evaluate(wsDET, TotalsRow(K), c) = 2500

\* the day-marker columns of the detail sheet
DayColumns(labels) == {c \in 1..Len(labels) : IsDayLabel(labels[c])}

\* the columns some SUM formula of the sheet reads
SummedLetters(ws) ==
  {ws.cells[p].v.col : p \in {q \in DOMAIN ws.cells : ws.cells[q].v.t = "formula"}}

DayColumnUntouched(ws, records, labels, c) ==
  /\ \A i \in 1..Len(records) :
       LET raw == getValueForHeader(records[i], labels[c])
           cell == GetCell(ws.cells, DataRow(i), c)
       IN  /\ ~cell.resolved
           /\ cell.v = IF NonEmptyToken(raw) THEN TextValue(raw) ELSE NullValue
           /\ cell.v = coerceByHeader(labels[c], raw)
  /\ numberToColumn(c) \notin SummedLetters(ws)
  /\ GetCell(ws.cells, TotalsRow(Len(records)), c).v = NullValue
  /\ GetCell(ws.cells, TotalsRow(Len(records)), c).numFmt = NoFmt

(* C6: for every detail column whose header matches ^\d{1,2}$ and every    *)
(* record, the written cell is empty (empty or missing token) or the       *)
(* token unchanged as text; the resolver is never applied to it, and the   *)
(* column has no totals cell and is read by no SUM formula.                *)
C6_DayColumnsAreText ==
  wsDET # NoSheet =>
    \A c \in DayColumns(DET_HEADERS(detParsed.headers)) :
      DayColumnUntouched(wsDET, detParsed.rows, DET_HEADERS(detParsed.headers), c)

\* a day cell whose token the resolver would parse was written as text
C6_Witness ==
  /\ wsDET # NoSheet
  /\ \E c \in DayColumns(DET_HEADERS(detParsed.headers)) :
       \E i \in 1..Len(detParsed.rows) :
         LET cell == GetCell(wsDET.cells, DataRow(i), c)
         IN  /\ cell.v.t = "text"
             /\ parseNumberAndFormat(cell.v.txt).ok
             /\ parseNumberAndFormat(cell.v.txt).groupingUsed

\* the day numbers 1..31 among the input headers, from d on, ascending
RECURSIVE AscendingDays(_, _)
AscendingDays(headers, d) ==
  IF d > 31 THEN <<>>
  ELSE (IF \E c \in 1..Len(headers) :
             IsDayLabel(Trim(headers[c])) /\ TextToInt(Trim(headers[c])) = d
          THEN <<IntToText(d)>> ELSE <<>>)
       \o AscendingDays(headers, d + 1)

\* the texts of the header row of a sheet
HeaderRow(ws) ==
  [c \in 1..Cardinality({p \in DOMAIN ws.cells : p[1] = HEADER_ROW_INDEX}) |->
     ws.cells[<<HEADER_ROW_INDEX, c>>].v.txt]

(* C7: the header row of the detail sheet is the 23 base labels followed   *)
(* by the day columns, which are the input headers that denote a day       *)
(* number in 1..31, each once, in ascending numeric order whatever their   *)
(* order or repetition in the input; "0" or "99" are not day columns.      *)
C7_DayColumnsAscending ==
  wsDET # NoSheet =>
    HeaderRow(wsDET) = DET_BASE_HEADERS \o AscendingDays(detParsed.headers, 1)

\* the rows the sheet's layout gives to the elements called name
RowsOf(ws, name) ==
  {ws.layout[k].row : k \in {j \in 1..Len(ws.layout) : ws.layout[j].elem = name}}

\* the text in cell (r, c), empty when the cell holds no text
TextAt(ws, r, c) ==
  LET v == GetCell(ws.cells, r, c).v
  IN  IF v.t = "text" THEN v.txt ELSE <<>>

Merged(ws, row, first, last) ==
  [row |-> row, first |-> first, last |-> last] \in ws.merges

\* the cells of row r show the record obj
RecordAt(ws, labels, r, obj) ==
  \A c \in 1..Len(labels) :
    LET raw == getValueForHeader(obj, labels[c])
        v == GetCell(ws.cells, r, c).v
    IN  \/ v.t = "text" /\ v.txt = raw
        \/ v.t = "number" /\ parseNumberAndFormat(raw).ok
                          /\ v.num = parseNumberAndFormat(raw).num
        \/ v.t = "null" /\ ~NonEmptyToken(raw)

\* header at row 4, record i at row 4+i, totals at 4+K+1, footer at 4+K+3
BodyLayout(ws, records, labels) ==
  LET K == Len(records)
  IN  /\ RowsOf(ws, "header") = {HEADER_ROW_INDEX}
      /\ \A c \in 1..Len(labels) : TextAt(ws, HEADER_ROW_INDEX, c) = labels[c]
      /\ SelectSeq(ws.layout, LAMBDA e : e.elem = "data")
           = [i \in 1..K |-> Elem("data", HEADER_ROW_INDEX + i)]
      /\ \A i \in 1..K : RecordAt(ws, labels, HEADER_ROW_INDEX + i, records[i])
      /\ RowsOf(ws, "totals") = {HEADER_ROW_INDEX + K + 1}
      /\ \E c \in 1..Len(labels) :
           GetCell(ws.cells, HEADER_ROW_INDEX + K + 1, c).v.t = "formula"
      /\ RowsOf(ws, "footer") = {HEADER_ROW_INDEX + K + 3}
      /\ StartsWith(TextAt(ws, HEADER_ROW_INDEX + K + 3, 1),
                    <<"U", "d", "t", "r", "u", "k", "k", "e", "t", " ">>)
      /\ \A j, k \in 1..Len(ws.layout) :
           j # k => ws.layout[j].row # ws.layout[k].row

\* a detected title is in row 1, merged across the ncols data columns
TitleLayout(ws, title, ncols) ==
  title # <<>> =>
    /\ RowsOf(ws, "title") = {1}
    /\ TextAt(ws, 1, 1) = title
    /\ Merged(ws, 1, 1, ncols)

\* a detected subtitle is in row 2, merged across the ncols data columns
SubtitleLayout(ws, subtitle, ncols) ==
  subtitle # <<>> =>
    /\ RowsOf(ws, "subtitle") = {2}
    /\ TextAt(ws, 2, 1) = subtitle
    /\ Merged(ws, 2, 1, ncols)

\* the sheet has no subtitle: row 2 is empty and unmerged
NoSubtitle(ws) ==
  /\ RowsOf(ws, "subtitle") = {}
  /\ \A p \in DOMAIN ws.cells : p[1] # 2
  /\ \A m \in ws.merges : m.row # 2

DetLayout ==
  Len(detParsed.rows) >= 1 =>
    /\ BodyLayout(wsDET, detParsed.rows, DET_HEADERS(detParsed.headers))
    /\ TitleLayout(wsDET, OrElse(detParsed.title, sapParsed.title),
                   Len(DET_HEADERS(detParsed.headers)))

SapLayout ==
  Len(sapParsed.rows) >= 1 =>
    /\ BodyLayout(wsSAP, sapParsed.rows, SAP_HEADERS)
    /\ TitleLayout(wsSAP, OrElse(sapParsed.title, detParsed.title), Len(SAP_HEADERS))

(* C8, as stated: for each sheet with K >= 1 kept records the header is    *)
(* at row 4, record i at row 4+i, the totals at row 4+K+1 and the footer   *)
(* at row 4+K+3; title and subtitle, when detected, occupy rows 1 and 2 of *)
(* both sheets, merged across all data columns; no two elements share a    *)
(* row.                                                                    *)
C8_SheetLayout ==
  BothWritten =>
    /\ DetLayout
    /\ SapLayout
    /\ Len(detParsed.rows) >= 1 =>
         SubtitleLayout(wsDET, OrElse(detParsed.subtitle, sapParsed.subtitle),
                        Len(DET_HEADERS(detParsed.headers)))
    /\ Len(sapParsed.rows) >= 1 =>
         SubtitleLayout(wsSAP, OrElse(sapParsed.subtitle, detParsed.subtitle),
                        Len(SAP_HEADERS))

(* C8, amended: for each sheet with K >= 1 kept records the header is at   *)
(* row 4, record i at row 4+i, the totals at row 4+K+1 and the footer at   *)
(* row 4+K+3; a detected title occupies row 1 of both sheets, merged       *)
(* across all data columns; a detected subtitle occupies row 2 of the      *)
(* detail sheet only, merged across all its columns, and the SAP sheet     *)
(* never has a subtitle; no two elements share a row.                      *)
C8_SheetLayoutAmended ==
  BothWritten =>
    /\ DetLayout
    /\ SapLayout
    /\ Len(detParsed.rows) >= 1 =>
         SubtitleLayout(wsDET, OrElse(detParsed.subtitle, sapParsed.subtitle),
                        Len(DET_HEADERS(detParsed.headers)))
    /\ NoSubtitle(wsSAP)

\* both sheets hold a record, under a detected title and subtitle
C8_Witness ==
  /\ BothWritten
  /\ Len(detParsed.rows) >= 1 /\ Len(sapParsed.rows) >= 1
  /\ detParsed.title # <<>> /\ detParsed.subtitle # <<>>
  /\ RowsOf(wsDET, "subtitle") = {2} /\ RowsOf(wsDET, "footer") = {8}
  /\ RowsOf(wsSAP, "title") = {1} /\ RowsOf(wsSAP, "footer") = {8}

\* no data row and no totals cell; the footer is at row 6
HeaderAndFooterOnly(ws) ==
  /\ RowsOf(ws, "data") = {} /\ RowsOf(ws, "totals") = {}
  /\ SummedLetters(ws) = {}
  /\ \A p \in DOMAIN ws.cells :
       p[1] > HEADER_ROW_INDEX => p = <<HEADER_ROW_INDEX + 2, 1>>
  /\ RowsOf(ws, "footer") = {HEADER_ROW_INDEX + 2}
  /\ StartsWith(TextAt(ws, HEADER_ROW_INDEX + 2, 1),
                <<"U", "d", "t", "r", "u", "k", "k", "e", "t", " ">>)

\* the sheet has its totals row below the K records
HasTotals(ws, K) ==
  /\ RowsOf(ws, "totals") = {HEADER_ROW_INDEX + K + 1}
  /\ \E p \in DOMAIN ws.cells :
       p[1] = HEADER_ROW_INDEX + K + 1 /\ ws.cells[p].v.t = "formula"

(* C9: a sheet whose document is empty or has no kept record gets no data  *)
(* rows and no totals cell at all, and its footer at row 6; this holds for *)
(* each sheet on its own: the other sheet keeps its totals row.            *)
C9_EmptyDocument ==
  BothWritten =>
    /\ detParsed.rows = <<>> => HeaderAndFooterOnly(wsDET)
    /\ sapParsed.rows = <<>> => HeaderAndFooterOnly(wsSAP)
    /\ detParsed.rows # <<>> => HasTotals(wsDET, Len(detParsed.rows))
    /\ sapParsed.rows # <<>> => HasTotals(wsSAP, Len(sapParsed.rows))

\* an empty SAP document next to a detail document with records
C9_Witness ==
  /\ BothWritten
  /\ sapText = <<>> /\ sapParsed.rows = <<>> /\ detParsed.rows # <<>>
  /\ RowsOf(wsSAP, "footer") = {6}
  /\ RowsOf(wsDET, "totals") # {}

\* nothing of the pipeline has run
NothingRead ==
  /\ fetches = <<>>
  /\ sapText = NoText /\ detText = NoText
  /\ sapParsed = NotParsedYet /\ detParsed = NotParsedYet
  /\ wsDET = NoSheet /\ wsSAP = NoSheet

(* C10: a request whose method is not POST is answered with 405 and a JSON *)
(* error, and nothing is read or parsed for it; a POST request ends with   *)
(* exactly one response, either 200 with the workbook of two written       *)
(* sheets or a non-2xx JSON error; after a failure no workbook is sent.    *)
C10_AllOrNothing ==
  /\ Len(sent) <= 1
  /\ sent # <<>> <=> pc = "done"
  /\ req.method \notin {"", "POST"} =>
       sent = <<MethodNotAllowed>> /\ NothingRead
  /\ (req.method = "POST" /\ pc = "done") =>
       \/ sent = <<WorkbookSent>> /\ BothWritten
       \/ sent = <<BadRequest>>

\* the workbook was written but emitting it failed: one JSON error, no bytes
C10_Witness ==
  /\ req.method = "POST" /\ pc = "done"
  /\ BothWritten
  /\ sent = <<BadRequest>>

\* the identity/text role: not money, average price, count or day marker
TextRole(hdr) ==
  /\ hdr \notin MONEY_HEADERS \cup AVG_PRICE_HEADERS \cup COUNT_HEADERS
  /\ ~IsDayLabel(hdr)

\* the text columns of the sheet hold the source text, unresolved
TextColumnsPassThrough(ws, records, labels) ==
  \A c \in {d \in 1..Len(labels) : TextRole(labels[d])} :
    \A i \in 1..Len(records) :
      LET raw == getValueForHeader(records[i], labels[c])
          cell == GetCell(ws.cells, DataRow(i), c)
      IN  /\ cell.v = IF NonEmptyToken(raw) THEN TextValue(raw) ELSE NullValue
          /\ ~cell.resolved

(* C11: cells of columns with the identity/text role (every declared       *)
(* column that is not money, average price, count or day marker) are       *)
(* written as the source text unchanged on both sheets and are never       *)
(* passed through the numeric resolver, even when the text looks numeric.  *)
C11_TextColumnsAreText ==
  BothWritten =>
    /\ TextColumnsPassThrough(wsDET, detParsed.rows, DET_HEADERS(detParsed.headers))
    /\ TextColumnsPassThrough(wsSAP, sapParsed.rows, SAP_HEADERS)

\* the resolver reported grouping for a parsed cell of column hdr
GroupingObserved(records, hdr) ==
  \E i \in 1..Len(records) :
    LET p == parseNumberAndFormat(getValueForHeader(records[i], hdr))
    IN  p.ok /\ p.groupingUsed

\* the grouping flags of the formats of the parsed data cells and the total
GroupingFlags(ws, K, c) ==
  {GetCell(ws.cells, DataRow(i), c).numFmt.grouped :
     i \in {j \in 1..K : GetCell(ws.cells, DataRow(j), c).v.t = "number"}}
  \cup (LET total == GetCell(ws.cells, TotalsRow(K), c)
        IN  IF total.v.t = "formula" THEN {total.numFmt.grouped} ELSE {})

UniformGrouping(ws, records, labels) ==
  \A c \in 1..Len(labels) :
    ~TextRole(labels[c]) =>
      GroupingFlags(ws, Len(records), c)
        \subseteq {GroupingObserved(records, labels[c])}

(* C15: for each numeric column of a sheet, grouping is enabled exactly    *)
(* when the resolver reported groupingUsed for at least one parsed cell of *)
(* the column, and this one choice is used in the number format of every   *)
(* parsed data cell of the column and of its totals cell; a column in      *)
(* which no row showed grouping (a money column included) has an ungrouped *)
(* format on its cells and total.                                          *)
C15_UniformGrouping ==
  BothWritten =>
    /\ UniformGrouping(wsDET, detParsed.rows, DET_HEADERS(detParsed.headers))
    /\ UniformGrouping(wsSAP, sapParsed.rows, SAP_HEADERS)

\* the text of a document has been acquired
Acquired(text) == text # NoText

\* parsing or sheet writing has started
ParsingBegun ==
  \/ sapParsed # NotParsedYet \/ detParsed # NotParsedYet
  \/ wsDET # NoSheet \/ wsSAP # NoSheet

\* the number of fetches made for a document
Times(doc) == Cardinality({i \in 1..Len(fetches) : fetches[i] = doc})

\* a fetch was made for the document and delivered no text
FailedFetch(doc, text) == Times(doc) >= 1 /\ ~Acquired(text)

\* after a failed fetch: nothing parsed or written, one JSON error
EndsInError ==
  /\ ~ParsingBegun
  /\ pc = "done" /\ sent = <<BadRequest>>

AcquisitionOrder ==
  /\ Acquired(detText) => Acquired(sapText)
  /\ Times("det") >= 1 => Acquired(sapText)
  /\ ParsingBegun => Acquired(sapText) /\ Acquired(detText)
  /\ Times("sap") <= 1 /\ Times("det") <= 1
  /\ FailedFetch("sap", sapText) =>
       Times("det") = 0 /\ ~Acquired(detText) /\ EndsInError
  /\ FailedFetch("det", detText) => EndsInError

(* C18: within one request the SAP text is fully acquired, then the detail *)
(* text, and only then parsing and workbook writing start; no acquisition  *)
(* happens after parsing has begun. A failed acquisition is attempted      *)
(* exactly once, any later acquisition is not started, no sheet is written *)
(* and the request ends with the JSON error response.                      *)
C18_AcquireThenParse ==
  [][/\ AcquisitionOrder'
     /\ Acquired(sapText) => sapText' = sapText
     /\ Acquired(detText) => detText' = detText
     /\ ParsingBegun => fetches' = fetches]_vars

\* the SAP fetch failed: one fetch, no detail acquisition, the JSON error
C18_Witness ==
  /\ FailedFetch("sap", sapText) /\ fetches = <<"sap">>
  /\ pc = "done" /\ sent = <<BadRequest>>

\* a non-empty inline string
InlineGiven(src) == src.csv \notin {NoCsv, NonStringCsv} /\ src.csv # <<>>

\* neither an inline string nor a url
NoSource(src) == ~InlineGiven(src) /\ ~src.url

\* one readCsvText step for the document doc, from text before to text after
ReadAsClaimed(src, doc, after) ==
  /\ InlineGiven(src) =>
       after = src.csv /\ fetches' = fetches /\ pc' # "done"
  /\ (~InlineGiven(src) /\ src.url) => fetches' = Append(fetches, doc)
  /\ NoSource(src) =>
       after = <<>> /\ fetches' = fetches /\ pc' # "done"

\* a document without source is laid out as an empty document
LaidOutEmpty ==
  /\ (NoSource(req.s1) /\ wsSAP # NoSheet) => HeaderAndFooterOnly(wsSAP)
  /\ (NoSource(req.s2) /\ wsDET # NoSheet) => HeaderAndFooterOnly(wsDET)

(* C20: for each of the two documents readCsvText returns the inline text  *)
(* without any fetch whenever a non-empty inline string is supplied, even  *)
(* next to a url; performs exactly one fetch when only a url is supplied   *)
(* or the inline value is empty or not a string; and returns the empty     *)
(* text without fetch and without error when neither is supplied, so that  *)
(* the sheet of a document without source is laid out as an empty          *)
(* document and the request does not fail for it.                          *)
C20_ReadCsvText ==
  [][/\ pc = "readSap" => ReadAsClaimed(req.s1, "sap", sapText')
     /\ pc = "readDet" => ReadAsClaimed(req.s2, "det", detText')
     /\ LaidOutEmpty']_vars

\* the SAP source has inline text and a url: no fetch was made for it; the
\* detail document has no source, and the workbook was sent
C20_Witness ==
  /\ sent = <<WorkbookSent>>
  /\ InlineGiven(req.s1) /\ req.s1.url
  /\ sapText = req.s1.csv /\ Times("sap") = 0
  /\ NoSource(req.s2) /\ detText = <<>>
  /\ HeaderAndFooterOnly(wsDET)

----------------------------------------------------------------------------
(* Claims about shape detection and label lookup, checked under SpecShape  *)

\* number of expected labels equal to some cell of the row, case and comma
\* insensitively
LabelScore(row, labels) ==
  Cardinality({k \in 1..Len(labels) :
                 \E c \in 1..Len(row) :
                   \/ norm(row[c]) = norm(labels[k])
                   \/ stripComma(row[c]) = stripComma(labels[k])})

\* the scores of the first 12 rows of the text split at delimiter d
WindowScores(text, d, labels) ==
  LET rows == PapaParse(text, d)
  IN  [i \in 1..Min2(Len(rows), 12) |-> LabelScore(rows[i], labels)]

\* the highest score in the window, -1 for a text without rows
BestRowScore(text, d, labels) ==
  LET scores == WindowScores(text, d, labels)
  IN  IF scores = <<>> THEN -1
      ELSE SetMax({scores[i] : i \in 1..Len(scores)})

\* the first of ';', ',', tab that attains the highest best-row score
ClaimedDelimiter(text, labels) ==
  LET top == SetMax({BestRowScore(text, Candidates[k], labels) :
                       k \in 1..Len(Candidates)})
  IN  Candidates[SetMin({k \in 1..Len(Candidates) :
                           BestRowScore(text, Candidates[k], labels) = top})]

\* the lowest 0-based index in the window that attains the highest score
ClaimedHeaderIdx(text, labels) ==
  LET d == ClaimedDelimiter(text, labels)
      scores == WindowScores(text, d, labels)
  IN  IF scores = <<>> THEN 0
      ELSE SetMin({i \in 1..Len(scores) :
                     scores[i] = BestRowScore(text, d, labels)}) - 1

ShapeAsClaimed(text, parsed, labels) ==
  /\ parsed.delimiter = ClaimedDelimiter(text, labels)
  /\ parsed.headerIdx = ClaimedHeaderIdx(text, labels)
  /\ parsed.headerIdx < 12
  /\ (\A k \in 1..Len(Candidates) : BestRowScore(text, Candidates[k], labels) <= 0)
       => parsed.headerIdx = 0 /\ parsed.delimiter = ";"

(* C12: the header row index parseCsvFlexible chooses is, for the chosen   *)
(* delimiter, the lowest-indexed of the first 12 rows that attains the     *)
(* maximum match score; the delimiter is the first of ';', ',', tab that   *)
(* attains the highest best-row score; when no row scores above zero or    *)
(* the text has no rows the index is 0 and the delimiter ';'; a row at     *)
(* index 12 or later is never chosen.                                      *)
C12_HeaderDetection ==
  BothParsed =>
    /\ ShapeAsClaimed(detText, detParsed, DET_BASE_HEADERS \o detDaysAll)
    /\ ShapeAsClaimed(sapText, sapParsed, SAP_HEADERS)

\* the full header lies at index 12, outside the window: the row at index 3
\* with the lower score is chosen
C12_Witness ==
  /\ BothParsed
  /\ Len(detText) > 12
  /\ detParsed.headerIdx = 3
  /\ LabelScore(PapaParse(detText, ";")[13], DET_BASE_HEADERS)
       > LabelScore(PapaParse(detText, ";")[4], DET_BASE_HEADERS)

\* the header columns whose label is L up to case, outer space and commas
DriftColumns(headers, L) ==
  {c \in 1..Len(headers) :
     \/ ToLowerCase(Trim(KeyAt(headers, c))) = ToLowerCase(Trim(L))
     \/ RemoveAll(ToLowerCase(Trim(KeyAt(headers, c))), {","})
          = RemoveAll(ToLowerCase(Trim(L)), {","})}

\* the value the claim expects for label L in a record over these headers
ClaimedLookup(headers, obj, L) ==
  LET exact == {c \in 1..Len(headers) : KeyAt(headers, c) = L}
      drift == DriftColumns(headers, L)
  IN  IF exact # {} THEN Get(obj, L)
      ELSE IF drift # {} THEN Get(obj, KeyAt(headers, SetMin(drift)))
      ELSE Null

LookupAsClaimed(parsed, labels) ==
  \A i \in 1..Len(parsed.rows) : \A k \in 1..Len(labels) :
    getValueForHeader(parsed.rows[i], labels[k])
      = ClaimedLookup(parsed.headers, parsed.rows[i], labels[k])

\* label L is found only through a drifted header, and some source row that
\* is not noise holds a non-empty cell under it
DriftedAndFilled(text, parsed, L) ==
  /\ \A c \in 1..Len(parsed.headers) : KeyAt(parsed.headers, c) # L
  /\ DriftColumns(parsed.headers, L) # {}
  /\ LET source == NonNoiseRecords(text, parsed)
     IN  \E i \in 1..Len(source) :
           Trim(ClaimedLookup(parsed.headers, source[i], L)) # <<>>

\* some data cell of the column of the c-th label is not empty
ColumnFilled(ws, K, c) ==
  \E i \in 1..K : GetCell(ws.cells, DataRow(i), c).v # NullValue

NeverEmptied(ws, text, parsed, labels) ==
  \A c \in 1..Len(labels) :
    DriftedAndFilled(text, parsed, labels[c])
      => ColumnFilled(ws, Len(parsed.rows), c)

(* C16: for every record and every declared label L, getValueForHeader     *)
(* returns the value under the key exactly equal to L when there is one;   *)
(* otherwise the value under the first key, in header order, that equals L *)
(* after trimming and lower-casing, or after additionally removing commas; *)
(* and null only when no key matches in either way. Consequently a         *)
(* declared column whose observed header differs from L only by case,      *)
(* surrounding white space or commas is never written as empty while its   *)
(* source cells are non-empty.                                             *)
C16_LabelLookup ==
  BothWritten =>
    /\ LookupAsClaimed(detParsed, DET_HEADERS(detParsed.headers))
    /\ LookupAsClaimed(sapParsed, SAP_HEADERS)
    /\ NeverEmptied(wsDET, detText, detParsed, DET_HEADERS(detParsed.headers))
    /\ NeverEmptied(wsSAP, sapText, sapParsed, SAP_HEADERS)

\* the rows of a text as the chosen delimiter splits them
RowsOfText(text, parsed) ==
  LET t == IF text # <<>> /\ text[1] # <<>> /\ text[1][1] = "bom"
             THEN <<Tail(text[1])>> \o Tail(text) ELSE text
  IN  [i \in 1..Len(t) |-> Split(t[i], parsed.delimiter)]

\* a cell without the double quotes at its two ends
Unquoted(cell) ==
  LET inner == {i \in 1..Len(cell) : cell[i] # "\""}
  IN  [j \in 1..(IF inner = {} THEN 0 ELSE SetMax(inner) - SetMin(inner) + 1)
         |-> cell[SetMin(inner) + j - 1]]

\* the first cell of row 0, unquoted; empty for a text without rows
FirstCell(rows) ==
  IF rows # <<>> /\ rows[1] # <<>> THEN Unquoted(rows[1][1]) ELSE <<>>

BeginsWithPeriode(cell) ==
  /\ Len(cell) >= 7
  /\ ToLowerCase(SubSeq(cell, 1, 7)) = <<"p", "e", "r", "i", "o", "d", "e">>

\* the trimmed cells of a row that are not empty
FilledCells(row) ==
  SelectSeq([c \in 1..Len(row) |-> Trim(row[c])], LAMBDA x : x # <<>>)

\* the subtitle of the claim: the filled cells of the first row strictly
\* between row 0 and the header row that has any, joined by two spaces
ClaimedSubtitle(rows, headerIdx) ==
  LET between == {i \in 1..(headerIdx - 1) :
                    i < Len(rows) /\ FilledCells(rows[i + 1]) # <<>>}
  IN  IF between = {} THEN <<>>
      ELSE Join(FilledCells(rows[SetMin(between) + 1]))

\* every record stems from a row below the header row
RecordsBelowHeader(rows, parsed) ==
  /\ Len(parsed.rows) <= Len(rows) - Min2(Len(rows), parsed.headerIdx + 1)
  /\ \A i \in 1..Len(parsed.rows) :
       \E j \in (parsed.headerIdx + 2)..Len(rows) :
         parsed.rows[i] = MakeRecord(parsed.headers, rows[j])

SubtitleAndRecords(text, parsed) ==
  LET rows == RowsOfText(text, parsed)
  IN  /\ parsed.subtitle = ClaimedSubtitle(rows, parsed.headerIdx)
      /\ parsed.headerIdx <= 1 => parsed.subtitle = <<>>
      /\ RecordsBelowHeader(rows, parsed)

\* the title rule as stated: the cell itself begins with the word
TitleAsStated(text, parsed) ==
  LET cell == FirstCell(RowsOfText(text, parsed))
  IN  parsed.title = IF BeginsWithPeriode(cell) THEN cell ELSE <<>>

\* the title rule with the cell trimmed before the test
TitleAfterTrim(text, parsed) ==
  LET cell == FirstCell(RowsOfText(text, parsed))
  IN  parsed.title = IF BeginsWithPeriode(Trim(cell)) THEN cell ELSE <<>>

(* C17, as stated: parseCsvFlexible returns a non-empty title only when    *)
(* the first cell of row 0, surrounding double quotes removed, begins case *)
(* insensitively with 'periode', and then the title is that cell; the      *)
(* subtitle is the joined non-empty trimmed cells of the lowest-indexed    *)
(* row i with 0 < i < headerRowIndex that has any, and empty when there is *)
(* none (in particular when headerRowIndex <= 1); neither row 0 nor the    *)
(* header row is used as subtitle and no row before the header is a data   *)
(* record.                                                                 *)
C17_TitleSubtitle ==
  BothParsed =>
    /\ TitleAsStated(detText, detParsed) /\ TitleAsStated(sapText, sapParsed)
    /\ SubtitleAndRecords(detText, detParsed)
    /\ SubtitleAndRecords(sapText, sapParsed)

(* C17, amended: the title is non-empty only when the first cell of row 0, *)
(* surrounding double quotes removed and then surrounding white space      *)
(* trimmed, begins case insensitively with 'periode', and then the title   *)
(* is that cell without its quotes but with its white space; the subtitle  *)
(* and the data records are as stated.                                     *)
C17_TitleSubtitleAmended ==
  BothParsed =>
    /\ TitleAfterTrim(detText, detParsed) /\ TitleAfterTrim(sapText, sapParsed)
    /\ SubtitleAndRecords(detText, detParsed)
    /\ SubtitleAndRecords(sapText, sapParsed)

\* a title, and a subtitle taken from the row at index 2 because the row at
\* index 1 is blank
C17_Witness ==
  /\ BothParsed
  /\ detParsed.title # <<>> /\ detParsed.headerIdx = 3
  /\ detParsed.subtitle # <<>>
  /\ FilledCells(RowsOfText(detText, detParsed)[2]) = <<>>

====
